---- MODULE Spec2Model ----
(***************************************************************************)
(* Chunked-upload engine of image-upload-backend: the lock registry        *)
(* (utils/lock_utils.rs), the chunk receiver and the merge engine          *)
(* (services/upload_service.rs) and the admission control of the upload    *)
(* handlers (handlers/upload_handlers.rs, state.rs).                       *)
(*                                                                         *)
(* Time is counted in hours, so that the 7200 s idle threshold of          *)
(* cleanup_file_locks is max_age = 2; an entry carries the hours elapsed   *)
(* since its last_used instant (all the code reads of it, besides the      *)
(* order), counted up to the threshold.  The registry capacity (10000 in   *)
(* the source) and the permit pool size (64) are scaled down; the retained *)
(* share of an eviction is computed from the capacity as the code does.    *)
(*                                                                         *)
(* A file is its bytes; the body of chunk i in a client's submission v is  *)
(* Body(i, v), BodyLen bytes that name i, v and their position, so that a  *)
(* partial, mixed or misplaced content differs from every whole body.      *)
(* The specifications share the actions: Spec (bounded runs of chunk       *)
(* submissions and merges), SpecChunk (submissions of one chunk and        *)
(* whole-file uploads competing for the permits), SpecLock (the registry   *)
(* under merges, the clock and the cleanup), SpecMerge (merges of uploaded *)
(* chunks under registry pressure), SpecDest (merges and whole-file        *)
(* uploads to the same name), SpecAdmit (merge requests through their      *)
(* handler), SpecPermit (one request of each handler on every path),       *)
(* SpecClosed (requests on closed permit pools), SpecTrack (merges and the *)
(* progress tracker), SpecShutdown (requests, the shutdown signal and the  *)
(* final cleanup), SpecKeys (merges of two logical files under the keys    *)
(* derived from their names), SpecBak (the merge of main_bak.rs), SpecPass *)
(* (the periodic cleanup of the two tables), SpecRegistry (get_file_lock   *)
(* step by step under its mutex), SpecSweep (the periodic cleanup during   *)
(* merges) and SpecLive (requests waiting for permits and locks, under     *)
(* fairness).                                                              *)
(*                                                                         *)
(* The functions of a request's strings are followed one call at a time,   *)
(* in the variable probe: SpecQuery (the validation of a chunk request),   *)
(* SpecResume (check_file_exists), SpecJanitor (a pass of the temp-file    *)
(* cleanup over one directory) and SpecTree (a pass over the whole tree).  *)
(* A string is the sequence of its characters.                             *)
(***************************************************************************)
EXTENDS Integers, Sequences, FiniteSets, TLC

\* ------------------------------------------------------------------ bounds
NumMergers == 2          \* merge requests that can be in flight at once
MaxChunks == 2           \* largest total_chunks a request declares
max_memory_locks == 3    \* registry capacity (lock_utils.rs:55 has 10000)
NumKeys == max_memory_locks + 1   \* distinct logical file keys ("{module}_{filename}")
NumUploaders == 2        \* upload_chunk requests that can be in flight at once
NumUpKeys == 1           \* keys the clients upload chunks of
global_max_concurrent == 2   \* permits of AppState.global_semaphore (config.rs:24 has 64)
ChunkPermits == 1        \* permits CHUNK_SEMAPHORE is initialised with
NumFileUploads == 1      \* upload_file requests that can be in flight at once
MaxUploads == 2          \* chunk submissions the clients of a bounded run send
MaxMerges == 2           \* merge requests the clients of a bounded run send
merge_max_concurrent == 1    \* permits MERGE_SEMAPHORE is initialised with (config.rs:25 has 4)
OneEach == 1             \* requests of a kind in flight where one of each is followed
MaxLen == 3              \* longest filename or relative_path of a request
MaxDeclared == 4         \* largest total_size a request declares (scaled as max_file_size)
MaxNameLen == 2          \* longest name of a file with parts in the temp directory
MaxParts == 3            \* part files in the temp directory of the module
LiveUploads == 1         \* chunk submissions the clients send where waiting is followed
MaxActive == 3           \* merge requests are admitted while ACTIVE_UPLOADS is below this

\* ------------------------------------------------------- program constants
max_age == 2             \* hours: Duration::from_secs(7200)
progress_max_age == 6    \* hours: Duration::from_secs(6 * 3600)
max_file_size == 2       \* config.rs:22 has 10 GiB; a declared size is counted in units of 5 GiB
u64_max == 3             \* largest value parse::<u64>() accepts, in the same units (2 bits wide)
Absent == -1             \* a query parameter that is not given
temp_max_age == 24       \* hours: Duration::from_secs(24 * 3600)
Closed == -2             \* a pool whose acquire() returns Err(AcquireError): it was closed

Keys == 1..NumKeys
Mergers == 1..NumMergers
Idx == 0..(MaxChunks - 1)
Uploaders == 1..NumUploaders
UpKeys == 1..NumUpKeys
FileUploads == 1..NumFileUploads

VARIABLES
    locks,      \* FILE_LOCKS: the entries (key, lock, age), oldest use first
    evicted,    \* history: the size-triggered eviction has discarded an entry
    part,       \* temp dir: <<key, index>> -> part file (ex, data)
    dest,       \* uploads dir: key -> final artifact (ex, data)
    scratch,    \* merger -> its "{final}.tmp.{uuid}" file (ex, data)
    orphans,    \* mergers whose finished merges left a scratch file on disk
    mpc,        \* merger -> position in merge_chunk_files
    mreq,       \* merger -> request (key, total_chunks)
    mh,         \* merger -> the Arc<Mutex<()>> it got from get_file_lock (0: none)
    mi,         \* merger -> loop index i of merge_chunks_internal
    mres,       \* merger -> result of its last merge
    upc,        \* uploader -> position in upload_chunk / handle_chunk_upload
    ureq,       \* uploader -> request (key, chunk_number, total_chunks, v, valid)
    uoff,       \* uploader -> bytes of the body written so far (file offset)
    uatt,       \* uploader -> its open file is the one linked at the part path
    uperm,      \* uploader -> it holds a CHUNK_SEMAPHORE permit
    ures,       \* uploader -> response of its last request
    pendingRm,  \* part paths a spawned tokio::fs::remove_file task will delete
    globalPermits,   \* available permits of AppState.global_semaphore
    chunkSem,        \* available permits of CHUNK_SEMAPHORE (-1: never initialised)
    active_uploads,  \* ACTIVE_UPLOADS
    fpc,        \* upload_file request -> position in upload_file
    freq,       \* upload_file request -> (key, v): the file name and the body it streams
    foff,       \* upload_file request -> pieces of the body written so far
    fatt,       \* upload_file request -> its open file is the one linked at dest[key]
    acked,      \* history: part paths a submission has answered success for, not merged since
    uploadsLeft,     \* chunk submissions the clients may still send (-1: any number)
    mergesLeft,      \* merge requests the clients may still send (-1: any number)
    mergeSem,   \* available permits of MERGE_SEMAPHORE (-1: never initialised)
    hpc,        \* merger -> position in the handler merge_chunks
    hreq,       \* merger -> the request merge_chunks received (key, total_chunks, valid)
    progresses, \* UploadManager.progresses: the entries (key, age in hours)
    probe,      \* one call of a function of the request's strings: its inputs and results
    phase,      \* where main is: "running", or a step of its shutdown branch
    shutlog     \* (history) the steps the shutdown has performed, in order

lockVars == <<locks, evicted>>
fsVars == <<part, dest, scratch, orphans>>
mergeVars == <<mpc, mreq, mh, mi, mres>>
upVars == <<upc, ureq, uoff, uperm, ures>>
fSide == <<fpc, freq, foff, fatt>>
admVars == <<globalPermits, chunkSem, active_uploads, fSide>>
quota == <<uploadsLeft, mergesLeft>>
sdVars == <<phase, shutlog>>
xSide == <<mergeSem, hreq, probe, sdVars>>
ySide == <<xSide, hpc, progresses>>
\* everything but the probe
engine == <<lockVars, fsVars, mergeVars, upVars, uatt, pendingRm, admVars, acked, quota,
           mergeSem, hreq, hpc, progresses, sdVars>>
upSide == <<upVars, uatt, pendingRm, admVars, acked, quota, ySide>>
vars == <<locks, evicted, part, dest, scratch, orphans, mpc, mreq, mh, mi, mres,
          upc, ureq, uoff, uatt, uperm, ures, pendingRm,
          globalPermits, chunkSem, active_uploads, fpc, freq, foff, fatt,
          acked, uploadsLeft, mergesLeft, mergeSem, hreq, hpc, progresses, probe,
          phase, shutlog>>

\* a file: ex(ists), its bytes, and (history) by: the version of the submission
\* that wrote it and returned success, 0 if there is none
NoFile == [ex |-> FALSE, data |-> <<>>, by |-> 0]
File(d) == [ex |-> TRUE, data |-> d, by |-> 0]
NoUReq == [key |-> 0, chunk_number |-> 0, total_chunks |-> 0, v |-> 0, valid |-> TRUE,
           retry |-> FALSE]
NoURes == [kind |-> "none", next_chunk |-> -1]
NoFReq == [key |-> 0, v |-> 0]
NoProbe == [kind |-> "none"]
NoHReq == [key |-> 0, total_chunks |-> 0, valid |-> TRUE]
NoReq == [key |-> 0, total_chunks |-> 0, whole |-> FALSE]
NoRes == [kind |-> "none", idx |-> 0]

\* the HttpServer takes new requests until server_handle.stop(true) is called
Accepting == phase = "running"

\* ------------------------------------------------------------ lock registry
\* FILE_LOCKS is kept as the sequence of its entries in the order of their
\* last_used instants, oldest first.  Instants have nanosecond resolution and
\* every update happens under the registry mutex, so no two entries share one;
\* age is now.duration_since(last_used) in hours, counted up to max_age.
HasEntry(L, key) == \E j \in 1..Len(L) : L[j].key = key
EntryOf(L, key) == L[CHOOSE j \in 1..Len(L) : L[j].key = key]
Without(L, key) == SelectSeq(L, LAMBDA e : e.key # key)

\* (mutant) the eviction keeps every entry
retain_all == max_memory_locks

\* retain_count = (max_memory_locks * 8) / 10
retain_count == (max_memory_locks * 8) \div 10

\* entries.sort_by(|a, b| a.1.last_used.cmp(&b.1.last_used));
\* entries.into_iter().take(retain_count)
TakeSorted(L, cnt) == SubSeq(L, 1, IF Len(L) < cnt THEN Len(L) ELSE cnt)

\* the critical section of merge_chunk_files: from file_lock.lock() to return
InCS(m) ==
    mpc[m] \in {"create", "check", "copy", "remove", "sync", "rename", "unsynced", "finish"}

\* tokio Mutex state: the handle is locked while a merger holds its guard _fl
Locked(h) == \E m \in Mergers : InCS(m) /\ mh[m] = h

\* Arc::new(Mutex::new(())): an allocation nobody refers to yet.  A mutex is
\* named by its key and a generation g; the generations of a key still in use
\* are those some merger holds an Arc of (the key has no registry entry here).
Handle(key, g) == key * 10 + g
FreshHandle(key) ==
    Handle(key, CHOOSE g \in 0..NumMergers :
                    /\ \A m \in Mergers : mh[m] # Handle(key, g)
                    /\ \A f \in 0..(g - 1) : \E m \in Mergers : mh[m] = Handle(key, f))

\* guard.entry(key).or_insert_with(FileLockEntry::new); entry.update_usage()
Touch(L, key) ==
    Append(Without(L, key),
           [key |-> key,
            lock |-> IF HasEntry(L, key) THEN EntryOf(L, key).lock ELSE FreshHandle(key),
            age |-> 0])

\* get_file_lock(key), one step under the registry mutex: the registry it leaves
get_file_lock(key) ==
    IF Len(locks) >= max_memory_locks
    THEN Touch(TakeSorted(locks, retain_count), key)
    ELSE Touch(locks, key)

\* cleanup_file_locks: retain(|_, e| now.duration_since(e.last_used) < max_age)
cleanup_file_locks ==
    /\ locks' = SelectSeq(locks, LAMBDA e : e.age < max_age)
    /\ UNCHANGED <<evicted, fsVars, mergeVars, upSide>>

\* an hour passes: Instant::now() moves away from every last_used
Tick ==
    /\ locks' = [j \in 1..Len(locks) |->
                    [locks[j] EXCEPT !.age = IF @ < max_age THEN @ + 1 ELSE @]]
    /\ progresses' = {[e EXCEPT !.age = IF @ < progress_max_age THEN @ + 1 ELSE @] : e \in progresses}
    /\ UNCHANGED <<evicted, fsVars, mergeVars, upVars, uatt, pendingRm, admVars, acked, quota, xSide, hpc>>

\* ---------------------------------------------------------------- part files
\* remove_file(path): the name is unlinked; a writer that has the file open
\* keeps writing to the unlinked file, out of reach of the path
Unlink(x) ==
    /\ part' = [part EXCEPT ![x] = NoFile]
    /\ uatt' = [u \in Uploaders |->
                    uatt[u] /\ <<ureq[u].key, ureq[u].chunk_number>> # x]

\* the destination path of key k among the paths a spawned delete removes
DestPath(k) == <<k, -1>>

\* remove_file / rename over the destination: an upload_file that has it open
\* keeps writing to the unlinked file
UnlinkDest(k) ==
    /\ dest' = [dest EXCEPT ![k] = NoFile]
    /\ fatt' = [f \in FileUploads |-> fatt[f] /\ freq[f].key # k]

\* ------------------------------------------------------------ merge engine
\* every chunk 0..n-1 of the key has been answered with success and is not
\* consumed, and no merge of the key is under way
AllAcked(k, n) ==
    /\ \A i \in 0..(n - 1) : <<k, i>> \in acked
    /\ \A o \in Mergers : mpc[o] = "idle" \/ mreq[o].key # k

\* merge_chunk_files is entered with a request (key, total_chunks); whole
\* records AllAcked at that moment.  The directories are created synchronously, then
\* let file_lock = lock_utils::get_file_lock(&file_lock_key).await
MergeRequest(m, k, n) ==
    /\ mpc[m] = "idle"
    /\ hpc[m] = "admitted" \/ Accepting
    /\ mreq' = [mreq EXCEPT ![m] = [key |-> k, total_chunks |-> n,
                                    whole |-> AllAcked(k, n)]]
    /\ mi' = [mi EXCEPT ![m] = 0]
    /\ mres' = [mres EXCEPT ![m] = NoRes]
    /\ locks' = get_file_lock(k)
    /\ mh' = [mh EXCEPT ![m] = EntryOf(locks', k).lock]
    /\ evicted' = (evicted \/ (Len(locks) >= max_memory_locks /\ Len(locks) > retain_count))
    /\ mpc' = [mpc EXCEPT ![m] = "lockwait"]
    /\ mergesLeft # 0
    /\ mergesLeft' = (IF mergesLeft > 0 THEN mergesLeft - 1 ELSE mergesLeft)
    /\ hpc' = [hpc EXCEPT ![m] = IF @ = "admitted" THEN "run" ELSE @]
    /\ UNCHANGED <<fsVars, upVars, uatt, pendingRm, admVars, acked, uploadsLeft, xSide, progresses>>

\* let _fl = file_lock.lock().await
MergeLock(m) ==
    /\ mpc[m] = "lockwait"
    /\ ~Locked(mh[m])
    /\ mpc' = [mpc EXCEPT ![m] = "create"]
    /\ UNCHANGED <<lockVars, fsVars, mreq, mh, mi, mres, upSide>>

\* the merge returns: _fl and file_lock are dropped
Return(m, res) ==
    /\ mpc' = [mpc EXCEPT ![m] = "idle"]
    /\ mres' = [mres EXCEPT ![m] = res]
    /\ mh' = [mh EXCEPT ![m] = 0]
    /\ mi' = [mi EXCEPT ![m] = 0]
    /\ mreq' = [mreq EXCEPT ![m] = NoReq]

\* ------------------------------------------------------------ file contents
\* byte p of the body a client sends as chunk i in its submission (version) v
B(i, v, p) == i * 100 + v * 10 + p
BodyLen == 2
Versions == 1..2
Body(i, v) == [p \in 1..BodyLen |-> B(i, v, p)]

\* (mutant) the scratch file is created before the per-key lock is acquired
MergeCreateTmp_early(m) ==
    /\ mpc[m] \in {"lockwait", "create"}
    /\ scratch' = [scratch EXCEPT ![m] = File(<<>>)]
    /\ mpc' = [mpc EXCEPT ![m] = IF @ = "create" THEN "check" ELSE @]
    /\ UNCHANGED <<lockVars, part, dest, orphans, mreq, mh, mi, mres, upSide>>

\* tmp_final = "{final_path}.tmp.{uuid}", OpenOptions create/write/truncate
MergeCreateTmp(m) ==
    /\ mpc[m] = "create"
    /\ scratch' = [scratch EXCEPT ![m] = File(<<>>)]
    /\ mpc' = [mpc EXCEPT ![m] = "check"]
    /\ UNCHANGED <<lockVars, part, dest, orphans, mreq, mh, mi, mres, upSide>>

\* an error return through `?` inside merge_chunks_internal: tmp_final is not removed
Abort(m) ==
    /\ scratch' = [scratch EXCEPT ![m] = NoFile]
    /\ orphans' = (IF scratch[m].ex THEN orphans \cup {m} ELSE orphans)
    /\ Return(m, [kind |-> "ioerr", idx |-> mi[m]])

\* (mutant) the missing-chunk return leaves the scratch file behind
MergeCheck_leak(m) ==
    /\ mpc[m] = "check"
    /\ IF mi[m] >= mreq[m].total_chunks
       THEN /\ mpc' = [mpc EXCEPT ![m] = "sync"]
            /\ UNCHANGED <<fsVars, mreq, mh, mi, mres>>
       ELSE IF part[<<mreq[m].key, mi[m]>>].ex
       THEN /\ mpc' = [mpc EXCEPT ![m] = "copy"]
            /\ UNCHANGED <<fsVars, mreq, mh, mi, mres>>
       ELSE /\ scratch' = [scratch EXCEPT ![m] = NoFile]
            /\ orphans' = orphans \cup {m}
            /\ Return(m, [kind |-> "missing", idx |-> mi[m]])
            /\ UNCHANGED <<part, dest>>
    /\ UNCHANGED <<lockVars, upSide>>

\* for i in 0..total_chunks: if !Path::new(&chunk_filepath).exists() { remove tmp; Err }
\* (total_chunks = 0 skips the loop)
MergeCheck(m) ==
    /\ mpc[m] = "check"
    /\ IF mi[m] >= mreq[m].total_chunks
       THEN /\ mpc' = [mpc EXCEPT ![m] = "sync"]
            /\ UNCHANGED <<fsVars, mreq, mh, mi, mres>>
       ELSE IF part[<<mreq[m].key, mi[m]>>].ex
       THEN /\ mpc' = [mpc EXCEPT ![m] = "copy"]
            /\ UNCHANGED <<fsVars, mreq, mh, mi, mres>>
       ELSE /\ scratch' = [scratch EXCEPT ![m] = NoFile]
            /\ Return(m, [kind |-> "missing", idx |-> mi[m]])
            /\ UNCHANGED <<part, dest, orphans>>
    /\ UNCHANGED <<lockVars, upSide>>

\* File::open(&chunk_filepath), metadata, std::io::copy(&mut chunk_file, &mut tmp_file)
MergeCopy(m) ==
    /\ mpc[m] = "copy"
    /\ IF part[<<mreq[m].key, mi[m]>>].ex
       THEN /\ scratch' = [scratch EXCEPT ![m].data = @ \o part[<<mreq[m].key, mi[m]>>].data]
            /\ mpc' = [mpc EXCEPT ![m] = "remove"]
            /\ UNCHANGED <<part, dest, orphans, mreq, mh, mi, mres>>
       ELSE /\ Abort(m)
            /\ UNCHANGED <<part, dest>>
    /\ UNCHANGED <<lockVars, upSide>>

\* std::fs::remove_file(&chunk_filepath): a failure is logged only
MergeRemove(m) ==
    /\ mpc[m] = "remove"
    /\ Unlink(<<mreq[m].key, mi[m]>>)
    /\ mi' = [mi EXCEPT ![m] = @ + 1]
    /\ mpc' = [mpc EXCEPT ![m] = "check"]
    /\ acked' = acked \ {<<mreq[m].key, mi[m]>>}
    /\ UNCHANGED <<lockVars, dest, scratch, orphans, mreq, mh, mres, upVars, pendingRm, admVars, quota, ySide>>

\* tmp_file.sync_all()
MergeSync(m) ==
    /\ mpc[m] = "sync"
    /\ mpc' = [mpc EXCEPT ![m] = "rename"]
    /\ UNCHANGED <<lockVars, fsVars, mreq, mh, mi, mres, upSide>>

\* std::fs::rename(&tmp_final, &final_path)
MergeRename(m) ==
    /\ mpc[m] = "rename"
    /\ dest' = [dest EXCEPT ![mreq[m].key] = File(scratch[m].data)]
    /\ fatt' = [f \in FileUploads |-> fatt[f] /\ freq[f].key # mreq[m].key]
    /\ scratch' = [scratch EXCEPT ![m] = NoFile]
    /\ mpc' = [mpc EXCEPT ![m] = "finish"]
    /\ UNCHANGED <<lockVars, part, orphans, mreq, mh, mi, mres, upVars, uatt, pendingRm,
                   globalPermits, chunkSem, active_uploads, fpc, freq, foff, acked, quota, ySide>>

\* merge_chunks of main_bak.rs: let _ = tmp_file.sync_all(); the fsync fails,
\* its result is discarded and the closure goes on to the rename
MergeSyncIgnored(m) ==
    /\ mpc[m] = "sync"
    /\ mpc' = [mpc EXCEPT ![m] = "unsynced"]
    /\ UNCHANGED <<lockVars, fsVars, mreq, mh, mi, mres, upSide>>

\* merge_chunks of main_bak.rs: std::fs::rename(&tmp_final, &final_path)? after
\* the failed fsync
MergeRenameUnsynced(m) ==
    /\ mpc[m] = "unsynced"
    /\ dest' = [dest EXCEPT ![mreq[m].key] = File(scratch[m].data)]
    /\ fatt' = [f \in FileUploads |-> fatt[f] /\ freq[f].key # mreq[m].key]
    /\ scratch' = [scratch EXCEPT ![m] = NoFile]
    /\ mpc' = [mpc EXCEPT ![m] = "finish"]
    /\ UNCHANGED <<lockVars, part, orphans, mreq, mh, mi, mres, upVars, uatt, pendingRm,
                   globalPermits, chunkSem, active_uploads, fpc, freq, foff, acked, quota, ySide>>

\* (mutant) the entry of the key is left in the tracker
MergeFinish_keep(m) ==
    /\ mpc[m] = "finish"
    /\ progresses' = progresses
    /\ Return(m, [kind |-> "ok", idx |-> 0])
    /\ UNCHANGED <<lockVars, fsVars, upVars, uatt, pendingRm, admVars, acked, quota, xSide, hpc>>

\* metadata(&final_filepath), remove_progress, Ok(file_info)
MergeFinish(m) ==
    /\ mpc[m] = "finish"
    /\ progresses' = {e \in progresses : e.key # mreq[m].key}
    /\ Return(m, [kind |-> "ok", idx |-> 0])
    /\ UNCHANGED <<lockVars, fsVars, upVars, uatt, pendingRm, admVars, acked, quota, xSide, hpc>>

\* an I/O error of create / open, metadata, copy / sync_all / rename
MergeIoError(m) ==
    /\ mpc[m] \in {"create", "copy", "sync", "rename"}
    /\ Abort(m)
    /\ UNCHANGED <<lockVars, part, dest, upSide>>

\* ------------------------------------------- get_file_lock, step by step
\* FILE_LOCKS, the registry-wide tokio Mutex: held by the call of get_file_lock
\* that is between map.lock().await and its return
RegistryHeld == \E m \in Mergers : mpc[m] = "registry"

\* merge_chunk_files is entered and calls get_file_lock(&file_lock_key), which
\* awaits map.lock()
MergeArrive(m, k, n) ==
    /\ mpc[m] = "idle"
    /\ Accepting
    /\ mreq' = [mreq EXCEPT ![m] = [key |-> k, total_chunks |-> n,
                                    whole |-> AllAcked(k, n)]]
    /\ mi' = [mi EXCEPT ![m] = 0]
    /\ mres' = [mres EXCEPT ![m] = NoRes]
    /\ mpc' = [mpc EXCEPT ![m] = "regwait"]
    /\ UNCHANGED <<lockVars, fsVars, mh, upSide>>

\* let mut guard = map.lock().await
RegistryLock(m) ==
    /\ mpc[m] = "regwait"
    /\ ~RegistryHeld
    /\ mpc' = [mpc EXCEPT ![m] = "registry"]
    /\ UNCHANGED <<lockVars, fsVars, mreq, mh, mi, mres, upSide>>

\* (mutant) the call awaits the per-key mutex before it drops the registry guard
RegistryReturn_held(m) ==
    /\ mpc[m] = "registry"
    /\ locks' = get_file_lock(mreq[m].key)
    /\ ~Locked(EntryOf(locks', mreq[m].key).lock)
    /\ mh' = [mh EXCEPT ![m] = EntryOf(locks', mreq[m].key).lock]
    /\ evicted' = (evicted \/ (Len(locks) >= max_memory_locks /\ Len(locks) > retain_count))
    /\ mpc' = [mpc EXCEPT ![m] = "lockwait"]
    /\ UNCHANGED <<fsVars, mreq, mi, mres, upSide>>

\* the eviction, entry(key).or_insert_with, update_usage, entry.lock.clone();
\* the function returns and guard is dropped.  The caller goes on to
\* file_lock.lock().await
RegistryReturn(m) ==
    /\ mpc[m] = "registry"
    /\ locks' = get_file_lock(mreq[m].key)
    /\ mh' = [mh EXCEPT ![m] = EntryOf(locks', mreq[m].key).lock]
    /\ evicted' = (evicted \/ (Len(locks) >= max_memory_locks /\ Len(locks) > retain_count))
    /\ mpc' = [mpc EXCEPT ![m] = "lockwait"]
    /\ UNCHANGED <<fsVars, mreq, mi, mres, upSide>>

\* cleanup_file_locks takes the registry mutex for its retain
RegistryCleanup ==
    /\ ~RegistryHeld
    /\ cleanup_file_locks

\* ------------------------------------------------------- progress tracker
\* UploadManager::update_progress(key, progress):
\* progresses.insert(key, (progress, Instant::now())).  No handler or service
\* of the repository calls it.
update_progress(key) ==
    /\ progresses' = {e \in progresses : e.key # key} \cup {[key |-> key, age |-> 0]}
    /\ UNCHANGED <<lockVars, fsVars, mergeVars, upVars, uatt, pendingRm, admVars, acked,
                   quota, xSide, hpc>>

\* ------------------------------------------------- merge_chunks (handler)
\* POST /upload/merge arrives with its body (key, total_chunks) and whether
\* the filename passes is_valid_filename
McRequest(m, k, n, valid) ==
    /\ Accepting
    /\ hpc[m] = "idle"
    /\ mpc[m] = "idle"
    /\ hpc' = [hpc EXCEPT ![m] = "permit"]
    /\ hreq' = [hreq EXCEPT ![m] = [key |-> k, total_chunks |-> n, valid |-> valid]]
    /\ mres' = [mres EXCEPT ![m] = NoRes]
    /\ UNCHANGED <<lockVars, fsVars, mpc, mreq, mh, mi, upVars, uatt, pendingRm, admVars,
                   acked, quota, mergeSem, progresses, probe, sdVars>>

\* the pool merge_chunks draws on: MERGE_SEMAPHORE if initialised, else
\* state.global_semaphore
MergePoolAvailable == IF mergeSem # -1 THEN mergeSem ELSE globalPermits

\* if let Some(sem) = get_merge_semaphore() { let _permit = sem.acquire().await... }
\* else { let _permit = state.global_semaphore.acquire().await... }
\* the acquire waits for a free permit; _permit is local to the block, so it
\* is dropped at the closing brace and the pool is as it was;
\* then ACTIVE_UPLOADS.fetch_add(1)
McPermit(m) ==
    /\ hpc[m] = "permit"
    /\ MergePoolAvailable > 0
    /\ active_uploads < MaxActive
    /\ active_uploads' = active_uploads + 1
    /\ hpc' = [hpc EXCEPT ![m] = "admitted"]
    /\ UNCHANGED <<lockVars, fsVars, mergeVars, upVars, uatt, pendingRm, globalPermits,
                   chunkSem, fSide, acked, quota, xSide, progresses>>

\* the same statements when the pool is closed: acquire() returns Err at once,
\* map_err logs it and builds the 503 error, the Result is bound to _permit
\* and dropped at the closing brace; then ACTIVE_UPLOADS.fetch_add(1)
McPermitClosed(m) ==
    /\ hpc[m] = "permit"
    /\ MergePoolAvailable = Closed
    /\ active_uploads < MaxActive
    /\ active_uploads' = active_uploads + 1
    /\ hpc' = [hpc EXCEPT ![m] = "admitted"]
    /\ UNCHANGED <<lockVars, fsVars, mergeVars, upVars, uatt, pendingRm, globalPermits,
                   chunkSem, fSide, acked, quota, xSide, progresses>>

\* if !is_valid_filename(&info.filename) { return BadRequest } (ACTIVE_UPLOADS
\* is left as it is); else merge_chunk_files(state, info) is entered
McEnter(m) ==
    /\ hpc[m] = "admitted"
    /\ IF hreq[m].valid
       THEN MergeRequest(m, hreq[m].key, hreq[m].total_chunks)
       ELSE /\ hpc' = [hpc EXCEPT ![m] = "idle"]
            /\ hreq' = [hreq EXCEPT ![m] = NoHReq]
            /\ mres' = [mres EXCEPT ![m] = [kind |-> "bad_request", idx |-> 0]]
            /\ UNCHANGED <<lockVars, fsVars, mpc, mreq, mh, mi, upVars, uatt, pendingRm,
                           admVars, acked, quota, mergeSem, progresses, probe, sdVars>>

\* merge_chunk_files has returned: Ok(file_info) => 200 (ACTIVE_UPLOADS is left
\* as it is), Err(e) => { ACTIVE_UPLOADS.fetch_sub(1); 500 }
McRespond(m) ==
    /\ hpc[m] = "run"
    /\ mpc[m] = "idle"
    /\ active_uploads' = (IF mres[m].kind = "ok" THEN active_uploads ELSE active_uploads - 1)
    /\ hpc' = [hpc EXCEPT ![m] = "idle"]
    /\ hreq' = [hreq EXCEPT ![m] = NoHReq]
    /\ UNCHANGED <<lockVars, fsVars, mergeVars, upVars, uatt, pendingRm, globalPermits,
                   chunkSem, fSide, acked, quota, mergeSem, progresses, probe, sdVars>>

\* ----------------------------------------------------------- chunk receiver
PathOf(u) == <<ureq[u].key, ureq[u].chunk_number>>

\* file.write_all(&chunk) at the file offset off: a write past the end of a file
\* another File::create has truncated leaves a hole of zero bytes
WriteAt(d, off, b) ==
    IF off < Len(d)
    THEN [d EXCEPT ![off + 1] = b]
    ELSE d \o [p \in 1..(off - Len(d)) |-> 0] \o <<b>>

\* POST /upload/chunk arrives with its query (key, chunk_number, total_chunks),
\* the body it will stream (version v) and whether the query passes validation;
\* retry records that a write of this part has failed before and that the
\* deletion it spawned has not run yet
UcRequest(u, k, i, n, v, valid) ==
    /\ Accepting
    /\ upc[u] = "idle"
    /\ ureq' = [ureq EXCEPT ![u] = [key |-> k, chunk_number |-> i, total_chunks |-> n,
                                    v |-> v, valid |-> valid,
                                    retry |-> (<<k, i>> \in pendingRm)]]
    /\ ures' = [ures EXCEPT ![u] = NoURes]
    /\ upc' = [upc EXCEPT ![u] = "acquire"]
    /\ uploadsLeft # 0
    /\ uploadsLeft' = (IF uploadsLeft > 0 THEN uploadsLeft - 1 ELSE uploadsLeft)
    /\ UNCHANGED <<lockVars, fsVars, mergeVars, uoff, uatt, uperm, pendingRm, admVars, acked, mergesLeft, ySide>>

\* (mutant) the handler goes on without waiting for a permit
UcAcquire_nowait(u) ==
    /\ upc[u] = "acquire"
    /\ globalPermits' = globalPermits - 1
    /\ active_uploads' = active_uploads + 1
    /\ upc' = [upc EXCEPT ![u] = "check"]
    /\ UNCHANGED <<lockVars, fsVars, mergeVars, ureq, uoff, uatt, uperm, ures, pendingRm,
                   chunkSem, fSide, acked, quota, ySide>>

\* let _permit = state.global_semaphore.acquire().await; ACTIVE_UPLOADS.fetch_add(1)
UcAcquire(u) ==
    /\ upc[u] = "acquire"
    /\ globalPermits > 0
    /\ globalPermits' = globalPermits - 1
    /\ active_uploads' = active_uploads + 1
    /\ upc' = [upc EXCEPT ![u] = "check"]
    /\ UNCHANGED <<lockVars, fsVars, mergeVars, ureq, uoff, uatt, uperm, ures, pendingRm,
                   chunkSem, fSide, acked, quota, ySide>>

\* state.global_semaphore.acquire().await.map_err(..ErrorServiceUnavailable..)?
\* on a closed pool: upload_chunk returns the 503 error
UcAcquireClosed(u) ==
    /\ upc[u] = "acquire"
    /\ globalPermits = Closed
    /\ upc' = [upc EXCEPT ![u] = "idle"]
    /\ ures' = [ures EXCEPT ![u] = [kind |-> "unavailable", next_chunk |-> -1]]
    /\ ureq' = [ureq EXCEPT ![u] = NoUReq]
    /\ UNCHANGED <<lockVars, fsVars, mergeVars, uoff, uatt, uperm, pendingRm, admVars,
                   acked, quota, ySide>>

\* (mutant) the CHUNK_SEMAPHORE permit outlives the request
UReturn_held(u, res) ==
    /\ upc' = [upc EXCEPT ![u] = "idle"]
    /\ ures' = [ures EXCEPT ![u] = res]
    /\ ureq' = [ureq EXCEPT ![u] = NoUReq]
    /\ uoff' = [uoff EXCEPT ![u] = 0]
    /\ uperm' = [uperm EXCEPT ![u] = FALSE]
    /\ chunkSem' = chunkSem
    /\ globalPermits' = globalPermits + 1
    /\ active_uploads' = active_uploads - 1
    /\ acked' = (IF res.kind \in {"written", "exists"} THEN acked \cup {PathOf(u)} ELSE acked)
    /\ UNCHANGED <<fSide, quota, ySide>>

\* upload_chunk returns: ACTIVE_UPLOADS.fetch_sub(1), _permit is dropped; a
\* CHUNK_SEMAPHORE permit taken in upload_chunk_content was dropped on its return
UReturn(u, res) ==
    /\ upc' = [upc EXCEPT ![u] = "idle"]
    /\ ures' = [ures EXCEPT ![u] = res]
    /\ ureq' = [ureq EXCEPT ![u] = NoUReq]
    /\ uoff' = [uoff EXCEPT ![u] = 0]
    /\ uperm' = [uperm EXCEPT ![u] = FALSE]
    /\ chunkSem' = (IF uperm[u] THEN chunkSem + 1 ELSE chunkSem)
    /\ globalPermits' = globalPermits + 1
    /\ active_uploads' = active_uploads - 1
    /\ acked' = (IF res.kind \in {"written", "exists"} THEN acked \cup {PathOf(u)} ELSE acked)
    /\ UNCHANGED <<fSide, quota, ySide>>

\* handle_chunk_upload up to the existence check: validation, create_dir_all,
\* if Path::new(&chunk_filepath).exists() { return success "exists" }
UcCheck(u) ==
    /\ upc[u] = "check"
    /\ IF ~ureq[u].valid
       THEN /\ UReturn(u, [kind |-> "rejected", next_chunk |-> -1])
            /\ UNCHANGED uatt
       ELSE IF part[PathOf(u)].ex
       THEN /\ UReturn(u, [kind |-> "exists", next_chunk |-> ureq[u].chunk_number + 1])
            /\ UNCHANGED uatt
       ELSE /\ upc' = [upc EXCEPT ![u] = "create"]
            /\ UNCHANGED <<ureq, uoff, uatt, uperm, ures, admVars, acked, quota, ySide>>
    /\ UNCHANGED <<lockVars, fsVars, mergeVars, pendingRm>>

\* payload.try_next() yields the field; upload_chunk_content: File::create(filepath)
\* creates the part file, or truncates the one that is there
UcCreate(u) ==
    /\ upc[u] = "create"
    /\ part' = [part EXCEPT ![PathOf(u)] = File(<<>>)]
    /\ uatt' = [uatt EXCEPT ![u] = TRUE]
    /\ uoff' = [uoff EXCEPT ![u] = 0]
    /\ upc' = [upc EXCEPT ![u] = IF chunkSem = -1 THEN "write" ELSE "sem"]
    /\ UNCHANGED <<lockVars, dest, scratch, orphans, mergeVars, ureq, uperm, ures,
                   pendingRm, admVars, acked, quota, ySide>>

\* the multipart body has no field or is malformed, or File::create fails
UcCreateError(u) ==
    /\ upc[u] = "create"
    /\ UReturn(u, [kind |-> "error", next_chunk |-> -1])
    /\ UNCHANGED <<lockVars, fsVars, mergeVars, uatt, pendingRm>>

\* let _permit = sem.acquire().await   (CHUNK_SEMAPHORE, when initialised)
UcSem(u) ==
    /\ upc[u] = "sem"
    /\ chunkSem > 0
    /\ chunkSem' = chunkSem - 1
    /\ uperm' = [uperm EXCEPT ![u] = TRUE]
    /\ upc' = [upc EXCEPT ![u] = "write"]
    /\ UNCHANGED <<lockVars, fsVars, mergeVars, ureq, uoff, uatt, ures, pendingRm,
                   globalPermits, active_uploads, fSide, acked, quota, ySide>>

\* while let Some(chunk) = field.try_next().await? { file.write_all(&chunk) }
UcWrite(u) ==
    /\ upc[u] = "write"
    /\ uoff[u] < BodyLen
    /\ part' = (IF uatt[u]
                THEN [part EXCEPT ![PathOf(u)].data =
                        WriteAt(@, uoff[u], B(ureq[u].chunk_number, ureq[u].v, uoff[u] + 1))]
                ELSE part)
    /\ uoff' = [uoff EXCEPT ![u] = @ + 1]
    /\ UNCHANGED <<lockVars, dest, scratch, orphans, mergeVars, upc, ureq, uatt, uperm,
                   ures, pendingRm, admVars, acked, quota, ySide>>

\* field.try_next() fails (the client disconnects): `?` returns the error and
\* leaves the part file as written so far
UcStreamError(u) ==
    /\ upc[u] = "write"
    /\ uoff[u] < BodyLen
    /\ UReturn(u, [kind |-> "error", next_chunk |-> -1])
    /\ uatt' = [uatt EXCEPT ![u] = FALSE]
    /\ UNCHANGED <<lockVars, fsVars, mergeVars, pendingRm>>

\* file.write_all fails: tokio::spawn(remove_file(filepath)) and an error return
UcWriteError(u) ==
    /\ upc[u] = "write"
    /\ uoff[u] < BodyLen
    /\ pendingRm' = pendingRm \cup {PathOf(u)}
    /\ UReturn(u, [kind |-> "error", next_chunk |-> -1])
    /\ uatt' = [uatt EXCEPT ![u] = FALSE]
    /\ UNCHANGED <<lockVars, fsVars, mergeVars>>

\* the stream ends; file.flush() succeeds; handle_chunk_upload answers success with
\* next_chunk = if chunk_number + 1 < total_chunks { Some(chunk_number + 1) } else { None }
UcFlush(u) ==
    /\ upc[u] = "write"
    /\ uoff[u] = BodyLen
    /\ part' = (IF uatt[u] THEN [part EXCEPT ![PathOf(u)].by = ureq[u].v] ELSE part)
    /\ UReturn(u, [kind |-> "written",
                   next_chunk |-> IF ureq[u].chunk_number + 1 < ureq[u].total_chunks
                                  THEN ureq[u].chunk_number + 1 ELSE -1])
    /\ uatt' = [uatt EXCEPT ![u] = FALSE]
    /\ UNCHANGED <<lockVars, dest, scratch, orphans, mergeVars, pendingRm>>

\* file.flush() fails: an error return, the part file stays
UcFlushError(u) ==
    /\ upc[u] = "write"
    /\ uoff[u] = BodyLen
    /\ UReturn(u, [kind |-> "error", next_chunk |-> -1])
    /\ uatt' = [uatt EXCEPT ![u] = FALSE]
    /\ UNCHANGED <<lockVars, fsVars, mergeVars, pendingRm>>

\* the task spawned by a failed write runs: tokio::fs::remove_file(filepath)
RunSpawnedDelete(x) ==
    /\ x \in pendingRm
    /\ pendingRm' = pendingRm \ {x}
    /\ IF x = DestPath(x[1])
       THEN UnlinkDest(x[1]) /\ UNCHANGED <<part, uatt>>
       ELSE Unlink(x) /\ UNCHANGED <<dest, fatt>>
    /\ UNCHANGED <<lockVars, scratch, orphans, mergeVars, upVars, acked, quota, ySide,
                   globalPermits, chunkSem, active_uploads, fpc, freq, foff>>

\* ----------------------------------------------------------- upload_file
\* POST /upload with a file named as key k and the body of version v (the
\* pieces of the whole file are the bodies of its chunks)
UfRequest(f, k, v) ==
    /\ Accepting
    /\ fpc[f] = "idle"
    /\ freq' = [freq EXCEPT ![f] = [key |-> k, v |-> v]]
    /\ fpc' = [fpc EXCEPT ![f] = "acquire"]
    /\ UNCHANGED <<lockVars, fsVars, mergeVars, upVars, uatt, pendingRm,
                   globalPermits, chunkSem, active_uploads, foff, fatt, acked, quota, ySide>>

\* let _permit = state.global_semaphore.acquire().await; ACTIVE_UPLOADS.fetch_add(1)
UfAcquire(f) ==
    /\ fpc[f] = "acquire"
    /\ globalPermits > 0
    /\ globalPermits' = globalPermits - 1
    /\ active_uploads' = active_uploads + 1
    /\ fpc' = [fpc EXCEPT ![f] = "create"]
    /\ UNCHANGED <<lockVars, fsVars, mergeVars, upVars, uatt, pendingRm, chunkSem,
                   freq, foff, fatt, acked, quota, ySide>>

\* the same statement on a closed pool: upload_file returns the 503 error
UfAcquireClosed(f) ==
    /\ fpc[f] = "acquire"
    /\ globalPermits = Closed
    /\ fpc' = [fpc EXCEPT ![f] = "idle"]
    /\ freq' = [freq EXCEPT ![f] = NoFReq]
    /\ UNCHANGED <<lockVars, fsVars, mergeVars, upVars, uatt, pendingRm, globalPermits,
                   chunkSem, active_uploads, foff, fatt, acked, quota, ySide>>

\* build_file_path: generate_unique_filename returns the path itself when nothing
\* exists there, a fresh "{stem}_{counter}" name otherwise (a file the model does
\* not follow); upload_file_content: File::create(filepath)
UfCreate(f) ==
    /\ fpc[f] = "create"
    /\ IF dest[freq[f].key].ex
       THEN UNCHANGED <<dest, fatt>>
       ELSE /\ dest' = [dest EXCEPT ![freq[f].key] = File(<<>>)]
            /\ fatt' = [fatt EXCEPT ![f] = TRUE]
    /\ foff' = [foff EXCEPT ![f] = 0]
    /\ fpc' = [fpc EXCEPT ![f] = IF chunkSem = -1 THEN "write" ELSE "sem"]
    /\ UNCHANGED <<lockVars, part, scratch, orphans, mergeVars, upVars, uatt, pendingRm,
                   globalPermits, chunkSem, active_uploads, freq, acked, quota, ySide>>

\* let _permit = sem.acquire().await   (CHUNK_SEMAPHORE, when initialised)
UfSem(f) ==
    /\ fpc[f] = "sem"
    /\ chunkSem > 0
    /\ chunkSem' = chunkSem - 1
    /\ fpc' = [fpc EXCEPT ![f] = "write"]
    /\ UNCHANGED <<lockVars, fsVars, mergeVars, upVars, uatt, pendingRm,
                   globalPermits, active_uploads, freq, foff, fatt, acked, quota, ySide>>

\* while let Some(chunk) = field.try_next().await? { async_file.write_all(&chunk) }
UfWrite(f) ==
    /\ fpc[f] = "write"
    /\ foff[f] < MaxChunks
    /\ dest' = (IF fatt[f]
                THEN [dest EXCEPT ![freq[f].key].data = @ \o Body(foff[f], freq[f].v)]
                ELSE dest)
    /\ foff' = [foff EXCEPT ![f] = @ + 1]
    /\ UNCHANGED <<lockVars, part, scratch, orphans, mergeVars, upVars, uatt, pendingRm,
                   globalPermits, chunkSem, active_uploads, fpc, freq, fatt, acked, quota, ySide>>

\* (mutant) upload_file returns and keeps its CHUNK_SEMAPHORE permit
FReturn_held(f) ==
    /\ fpc' = [fpc EXCEPT ![f] = "idle"]
    /\ freq' = [freq EXCEPT ![f] = NoFReq]
    /\ foff' = [foff EXCEPT ![f] = 0]
    /\ fatt' = [fatt EXCEPT ![f] = FALSE]
    /\ chunkSem' = chunkSem
    /\ globalPermits' = globalPermits + 1
    /\ active_uploads' = active_uploads - 1

\* upload_file returns: ACTIVE_UPLOADS.fetch_sub(1), the permits are dropped
FReturn(f) ==
    /\ fpc' = [fpc EXCEPT ![f] = "idle"]
    /\ freq' = [freq EXCEPT ![f] = NoFReq]
    /\ foff' = [foff EXCEPT ![f] = 0]
    /\ fatt' = [fatt EXCEPT ![f] = FALSE]
    /\ chunkSem' = (IF chunkSem >= 0 THEN chunkSem + 1 ELSE chunkSem)
    /\ globalPermits' = globalPermits + 1
    /\ active_uploads' = active_uploads - 1

\* the stream ends and flush succeeds, or field.try_next() fails and `?`
\* returns the error: the file stays as written so far
UfReturn(f) ==
    /\ fpc[f] = "write"
    /\ FReturn(f)
    /\ UNCHANGED <<lockVars, fsVars, mergeVars, upVars, uatt, pendingRm, acked, quota, ySide>>

\* write_all or flush fails: tokio::spawn(remove_file(filepath)) and an error return
UfWriteError(f) ==
    /\ fpc[f] = "write"
    /\ pendingRm' = (IF fatt[f] THEN pendingRm \cup {DestPath(freq[f].key)} ELSE pendingRm)
    /\ FReturn(f)
    /\ UNCHANGED <<lockVars, fsVars, mergeVars, upVars, uatt, acked, quota, ySide>>

\* no request of any handler is in flight
NoRequestInFlight ==
    /\ \A u \in Uploaders : upc[u] = "idle"
    /\ \A f \in FileUploads : fpc[f] = "idle"
    /\ \A m \in Mergers : hpc[m] = "idle" /\ mpc[m] = "idle"

\* ----------------------------------------------------------------- shutdown
\* the steps of one periodic pass of start_background_cleanup: cleanup_file_locks,
\* cleanup_expired_progress(6 h), cleanup_temp_files_internal
PeriodicSteps == <<"locks", "progress", "temp">>

\* main, tokio::select!: ctrl_c() completes and the shutdown branch calls
\* server_handle.stop(true): the server takes no more requests
ShutSignal ==
    /\ phase = "running"
    /\ phase' = "stopping"
    /\ shutlog' = <<"stop">>
    /\ UNCHANGED <<lockVars, fsVars, mergeVars, upVars, uatt, pendingRm, admVars, acked, quota,
                   mergeSem, hreq, hpc, progresses, probe>>

\* server_handle.stop(true).await returns: the graceful stop has let the
\* requests in flight run to their end
ShutStopped ==
    /\ phase = "stopping"
    /\ NoRequestInFlight
    /\ phase' = "locks"
    /\ UNCHANGED <<lockVars, fsVars, mergeVars, upVars, uatt, pendingRm, admVars, acked, quota,
                   mergeSem, hreq, hpc, progresses, probe, shutlog>>

\* graceful_shutdown: let locks_cleaned = lock_utils::cleanup_file_locks().await
ShutLocks ==
    /\ phase = "locks"
    /\ locks' = SelectSeq(locks, LAMBDA e : e.age < max_age)
    /\ shutlog' = Append(shutlog, "locks")
    /\ phase' = "temp"
    /\ UNCHANGED <<evicted, fsVars, mergeVars, upVars, uatt, pendingRm, admVars, acked, quota,
                   mergeSem, hreq, hpc, progresses, probe>>

\* graceful_shutdown: let _ = cleanup_temp_files_internal().await; the part
\* files created more than 24 hours ago (any of those present) are removed
ShutTemp ==
    /\ phase = "temp"
    /\ \E gone \in SUBSET {x \in DOMAIN part : part[x].ex} :
            part' = [x \in DOMAIN part |-> IF x \in gone THEN NoFile ELSE part[x]]
    /\ shutlog' = Append(shutlog, "temp")
    /\ phase' = "done"
    /\ UNCHANGED <<lockVars, dest, scratch, orphans, mergeVars, upVars, uatt, pendingRm,
                   admVars, acked, quota, mergeSem, hreq, hpc, progresses, probe>>

\* graceful_shutdown returns, main returns Ok(()): the process exits
ShutExit ==
    /\ phase = "done"
    /\ phase' = "exited"
    /\ shutlog' = Append(shutlog, "exit")
    /\ UNCHANGED <<lockVars, fsVars, mergeVars, upVars, uatt, pendingRm, admVars, acked, quota,
                   mergeSem, hreq, hpc, progresses, probe>>

\* --------------------------------------------------------- periodic cleanup
\* start_background_cleanup, one turn of its loop.  The probe holds the place
\* of the task in the turn and the numbers its calls returned.
NoPass == [kind |-> "pass", step |-> "idle", locks_cleaned |-> 0, progress_cleaned |-> 0]

\* cleanup_interval.tick().await completes
PassTick ==
    /\ probe.kind = "pass"
    /\ probe.step = "idle"
    /\ probe' = [probe EXCEPT !.step = "locks"]
    /\ UNCHANGED engine

\* let locks_cleaned = lock_utils::cleanup_file_locks().await:
\* retain(|_, e| now.duration_since(e.last_used) < max_age); initial_len - guard.len()
PassLocks ==
    /\ probe.kind = "pass"
    /\ probe.step = "locks"
    /\ locks' = SelectSeq(locks, LAMBDA e : e.age < max_age)
    /\ probe' = [probe EXCEPT !.step = "progress",
                              !.locks_cleaned = Len(locks) - Len(locks')]
    /\ UNCHANGED <<evicted, fsVars, mergeVars, upVars, uatt, pendingRm, admVars, acked, quota,
                   mergeSem, hreq, hpc, progresses, sdVars>>

\* (mutant) an entry idle for exactly the threshold is kept
cleanup_expired_late(age_limit) ==
    /\ probe.kind = "pass"
    /\ probe.step = "progress"
    /\ progresses' = {e \in progresses : e.age <= age_limit}
    /\ probe' = [probe EXCEPT !.step = "temp",
                              !.progress_cleaned =
                                  Cardinality(progresses) - Cardinality(progresses')]
    /\ UNCHANGED <<lockVars, fsVars, mergeVars, upVars, uatt, pendingRm, admVars, acked, quota,
                   mergeSem, hreq, hpc, sdVars>>

\* let progress_cleaned = cleanup_expired_progress(6 h).await, UploadManager::
\* cleanup_expired: retain(|_, (_, last_updated)| now.duration_since(*last_updated)
\* < max_age); initial_len - progresses.len()
cleanup_expired(age_limit) ==
    /\ probe.kind = "pass"
    /\ probe.step = "progress"
    /\ progresses' = {e \in progresses : e.age < age_limit}
    /\ probe' = [probe EXCEPT !.step = "temp",
                              !.progress_cleaned =
                                  Cardinality(progresses) - Cardinality(progresses')]
    /\ UNCHANGED <<lockVars, fsVars, mergeVars, upVars, uatt, pendingRm, admVars, acked, quota,
                   mergeSem, hreq, hpc, sdVars>>

\* cleanup_temp_files_internal().await: the part files created more than 24
\* hours ago (any of those present) are removed; the loop goes back to the tick
PassTemp ==
    /\ probe.kind = "pass"
    /\ probe.step = "temp"
    /\ \E gone \in SUBSET {x \in DOMAIN part : part[x].ex} :
          /\ part' = [x \in DOMAIN part |-> IF x \in gone THEN NoFile ELSE part[x]]
          /\ uatt' = [u \in Uploaders |-> uatt[u] /\ PathOf(u) \notin gone]
    /\ probe' = [probe EXCEPT !.step = "idle"]
    /\ UNCHANGED <<lockVars, dest, scratch, orphans, mergeVars, upVars, pendingRm,
                   admVars, acked, quota, mergeSem, hreq, hpc, progresses, sdVars>>

\* ------------------------------------------------------------------ strings
\* A string is the sequence of its characters.
Chars == {"a", ".", "/", "_"}
Strs == UNION {[1..n -> Chars] : n \in 0..MaxLen}

\* Option<String>::None, for a relative_path that is not given
NoPath == <<"None">>

\* str::contains(pat)
Contains(str, pat) ==
    \E i \in 1..(Len(str) - Len(pat) + 1) : SubSeq(str, i, i + Len(pat) - 1) = pat

\* str::replace(from, to), for a character
Replace(str, from, to) == [i \in 1..Len(str) |-> IF str[i] = from THEN to ELSE str[i]]

\* !filename.contains("..") && !filename.contains("//")
is_valid_filename(filename) ==
    ~Contains(filename, <<".", ".">>) /\ ~Contains(filename, <<"/", "/">>)

\* size <= max_size
is_valid_file_size(size, max_size) == size <= max_size

\* total_size_str.parse::<u64>(): Ok for the numbers a u64 holds
ParsesAsU64(declared) == declared >= 0 /\ declared <= u64_max

\* the decimal digits, Digits[d + 1] being the digit of d
Digits == <<"0", "1", "2", "3", "4", "5", "6", "7", "8", "9">>
IsDigit(c) == \E d \in 1..Len(Digits) : Digits[d] = c
DigitValue(c) == (CHOOSE d \in 1..Len(Digits) : Digits[d] = c) - 1

\* format!("{}", n) of an unsigned number
RECURSIVE Decimal(_)
Decimal(n) == IF n < 10 THEN <<Digits[n + 1]>> ELSE Decimal(n \div 10) \o <<Digits[(n % 10) + 1]>>

\* str::parse::<usize>() of a run of digits
RECURSIVE ParseDecimal(_)
ParseDecimal(str) ==
    IF Len(str) = 0 THEN 0
    ELSE ParseDecimal(SubSeq(str, 1, Len(str) - 1)) * 10 + DigitValue(str[Len(str)])

DotPart == <<".", "p", "a", "r", "t">>

\* the name of the part file in ./temp/{module}:
\* "{safe_path}_{filename}.part{chunk_number}" or "{filename}.part{chunk_number}"
temp_filename(relative_path, filename, chunk_number) ==
    IF relative_path # NoPath
    THEN Replace(relative_path, "/", "_") \o <<"_">> \o filename \o DotPart \o Decimal(chunk_number)
    ELSE filename \o DotPart \o Decimal(chunk_number)

\* handle_chunk_upload from the query to the part file's name: the filename
\* check, the total_size check, create_dir_all(temp_dir), temp_filename.
\* The probe records the answer and what the request did on the way.
VcHandle ==
    /\ probe.kind = "chunk_query"
    /\ probe.res = "none"
    /\ probe' =
         IF ~is_valid_filename(probe.filename)
         THEN [probe EXCEPT !.res = "bad_request"]
         ELSE IF /\ probe.total_size # Absent
                 /\ ParsesAsU64(probe.total_size)
                 /\ ~is_valid_file_size(probe.total_size, max_file_size)
         THEN [probe EXCEPT !.res = "bad_request"]
         ELSE [probe EXCEPT !.res = "accepted",
                            !.temp_dir = TRUE,
                            !.part_name = temp_filename(probe.relative_path, probe.filename,
                                                        probe.chunk_number)]
    /\ UNCHANGED engine

\* ------------------------------------------------------- logical file keys
\* temp_dir = format!("./temp/{}", module)
TempRoot == <<".", "/", "t", "e", "m", "p", "/">>

\* temp_filepath = format!("{}/{}", temp_dir, temp_filename)
temp_filepath(info, chunk_number) ==
    TempRoot \o info.module \o <<"/">>
        \o temp_filename(info.relative_path, info.filename, chunk_number)

\* file_lock_key = format!("{}_{}", info.module, info.filename)
file_lock_key(info) == info.module \o <<"_">> \o info.filename

\* progress_key = format!("{}_{}", info.module, info.filename)
progress_key(info) == info.module \o <<"_">> \o info.filename

\* the names the server derives for the two logical files of the probe
NameFiles ==
    /\ probe.kind = "keys"
    /\ ~probe.named
    /\ probe' = [probe EXCEPT
                   !.named = TRUE,
                   !.part_path = [j \in 1..2 |-> temp_filepath(probe.files[j], probe.chunk[j])],
                   !.lock_key = [j \in 1..2 |-> file_lock_key(probe.files[j])],
                   !.progress_key = [j \in 1..2 |-> progress_key(probe.files[j])]]
    /\ UNCHANGED engine

\* the registry key of merger m's file: equal numbers iff equal key strings
KeyNo(m) ==
    IF m = 1 \/ file_lock_key(probe.files[m]) = file_lock_key(probe.files[1]) THEN 1 ELSE 2

\* merge_chunk_files for the logical file of merger m
KeyedMergeRequest(m) ==
    /\ probe.kind = "keys"
    /\ MergeRequest(m, KeyNo(m), MaxChunks)

\* ---------------------------------------------------------- resume advisor
\* Regex \.part(\d+)$ : where the match starts in file_name, 0 if there is none
PartMatch(file_name) ==
    LET starts == {i \in 1..(Len(file_name) - Len(DotPart)) :
                      /\ SubSeq(file_name, i, i + Len(DotPart) - 1) = DotPart
                      /\ \A j \in (i + Len(DotPart))..Len(file_name) : IsDigit(file_name[j])}
    IN IF starts = {} THEN 0 ELSE CHOOSE i \in starts : \A j \in starts : i <= j

\* cap.get(1).as_str().parse::<usize>()
PartIndex(file_name) ==
    ParseDecimal(SubSeq(file_name, PartMatch(file_name) + Len(DotPart), Len(file_name)))

\* the entries of read_dir(temp_dir) that check_file_exists counts for filename
Counted(dir, filename) ==
    {file_name \in dir : Contains(file_name, filename) /\ PartMatch(file_name) # 0}

\* uploaded_chunks after the loop and sort(): one element per counted entry,
\* in ascending order, built from the largest index down
RECURSIVE SortedFrom(_, _)
SortedFrom(names, top) ==
    IF top < 0 THEN <<>>
    ELSE SortedFrom(names, top - 1)
            \o [j \in 1..Cardinality({x \in names : PartIndex(x) = top}) |-> top]

MaxIndex(names) ==
    IF names = {} THEN -1
    ELSE CHOOSE t \in {PartIndex(x) : x \in names} : \A x \in names : PartIndex(x) <= t

collect_uploaded_chunks(dir, filename) ==
    SortedFrom(Counted(dir, filename), MaxIndex(Counted(dir, filename)))

\* (mutant) the file's hash is compared too
instant_upload_hashed(d, info) ==
    d.ex /\ Len(d.data) = info.total_size /\ info.file_hash = "h2"

\* if Path::new(&filepath).exists() { ... metadata.len() == info.total_size }
instant_upload(d, info) == d.ex /\ Len(d.data) = info.total_size

\* check_file_exists(info): the probe holds the request, the file at
\* ./uploads/{module}/{filename} and the names in ./temp/{module}
CfHandle ==
    /\ probe.kind = "resume"
    /\ probe.res = "none"
    /\ probe' =
         IF instant_upload(probe.dest, probe.info)
         THEN [probe EXCEPT !.res = "ok", !.exists = TRUE, !.can_instant_upload = TRUE,
                            !.uploaded_chunks = <<>>, !.can_resume = FALSE]
         ELSE [probe EXCEPT !.res = "ok", !.exists = FALSE, !.can_instant_upload = FALSE,
                            !.uploaded_chunks = collect_uploaded_chunks(probe.dir,
                                                                        probe.info.filename),
                            !.can_resume = (collect_uploaded_chunks(probe.dir,
                                                probe.info.filename) # <<>>)]
    /\ UNCHANGED engine

\* ------------------------------------------------------------------ janitor
DotTmpDot == <<".", "t", "m", "p", ".">>

\* str::ends_with(pat)
EndsWith(str, pat) ==
    Len(str) >= Len(pat) /\ SubSeq(str, Len(str) - Len(pat) + 1, Len(str)) = pat

\* file_name.ends_with(".part") || file_name.contains(".part") || file_name.contains(".tmp.")
is_temp_name(file_name) ==
    \/ EndsWith(file_name, DotPart)
    \/ Contains(file_name, DotPart)
    \/ Contains(file_name, DotTmpDot)

\* cleanup_temp_files_internal, called by the periodic task, by the cleanup
\* endpoint and by graceful_shutdown: in each directory of ./temp, every file
\* created more than 24 hours ago whose name is a temp name is removed.  The
\* probe holds the files of one such directory (name -> age in hours, Absent
\* for no file) and the names removed.
cleanup_temp_files_internal(pass) ==
    /\ probe.kind = "janitor"
    /\ probe.pass = "none"
    /\ LET gone == {x \in DOMAIN probe.files :
                        /\ probe.files[x] # Absent
                        /\ probe.files[x] > temp_max_age
                        /\ is_temp_name(x)}
       IN probe' = [probe EXCEPT !.pass = pass,
                                 !.removed = gone,
                                 !.files = [x \in DOMAIN probe.files |->
                                                IF x \in gone THEN Absent ELSE probe.files[x]]]
    /\ UNCHANGED engine

\* cleanup_temp_files_internal on the whole tree: read_dir("./temp"), and for
\* each entry that is a directory read_dir of it; each entry of that directory
\* created more than 24 hours ago whose name is a temp name is handed to
\* remove_file, and a failure is logged and skipped.  Entries of ./temp that are
\* files, entries of deeper directories and everything under ./uploads are never
\* visited.  The probe holds the tree before the pass (path -> age in hours,
\* Absent for no file), the paths whose remove_file fails and the paths removed.
cleanup_temp_tree(pass, failing) ==
    /\ probe.kind = "tree"
    /\ probe.pass = "none"
    /\ LET visited == {x \in DOMAIN probe.files : x.place = "module"}
           gone == {x \in visited :
                        /\ probe.files[x] # Absent
                        /\ probe.files[x] > temp_max_age
                        /\ is_temp_name(x.name)
                        /\ x \notin failing}
       IN probe' = [probe EXCEPT !.pass = pass, !.failed = failing, !.removed = gone]
    /\ UNCHANGED engine

\* ------------------------------------------------------------ initial states
\* the server has just started: empty registry, empty directories, idle
\* workers.  P: the part files found in the temp directory, cs: the permits of
\* CHUNK_SEMAPHORE (-1: the binary never initialises it), ul, ml: the requests
\* the clients will send, ms: the permits of MERGE_SEMAPHORE (-1 likewise),
\* gp: the permits of state.global_semaphore, pr: the call the probe follows.
Boot(P, cs, ul, ml, ms, gp, pr) ==
    /\ locks = <<>>
    /\ evicted = FALSE
    /\ part = P
    /\ dest = [k \in Keys |-> NoFile]
    /\ scratch = [m \in Mergers |-> NoFile]
    /\ orphans = {}
    /\ mpc = [m \in Mergers |-> "idle"]
    /\ mreq = [m \in Mergers |-> NoReq]
    /\ mh = [m \in Mergers |-> 0]
    /\ mi = [m \in Mergers |-> 0]
    /\ mres = [m \in Mergers |-> NoRes]
    /\ upc = [u \in Uploaders |-> "idle"]
    /\ ureq = [u \in Uploaders |-> NoUReq]
    /\ uoff = [u \in Uploaders |-> 0]
    /\ uatt = [u \in Uploaders |-> FALSE]
    /\ uperm = [u \in Uploaders |-> FALSE]
    /\ ures = [u \in Uploaders |-> NoURes]
    /\ pendingRm = {}
    /\ globalPermits = gp
    /\ chunkSem = cs
    /\ active_uploads = 0
    /\ fpc = [f \in FileUploads |-> "idle"]
    /\ freq = [f \in FileUploads |-> NoFReq]
    /\ foff = [f \in FileUploads |-> 0]
    /\ fatt = [f \in FileUploads |-> FALSE]
    /\ acked = {}
    /\ uploadsLeft = ul
    /\ mergesLeft = ml
    /\ mergeSem = ms
    /\ hpc = [m \in Mergers |-> "idle"]
    /\ hreq = [m \in Mergers |-> NoHReq]
    /\ progresses = {}
    /\ probe = pr
    /\ phase = "running"
    /\ shutlog = <<>>

NoParts == [x \in Keys \X Idx |-> NoFile]

\* every chunk of the keys in UpKeys has been uploaded (by submissions of version 1)
AllParts ==
    [x \in Keys \X Idx |->
        IF x[1] \in UpKeys THEN [ex |-> TRUE, data |-> Body(x[2], 1), by |-> 1] ELSE NoFile]

\* ---------------------------------------------- chunk uploads and merges
\* A bounded run: the clients send MaxUploads chunk submissions and MaxMerges
\* merge requests for the keys in UpKeys, in any order and overlap.
Init == Boot(NoParts, -1, MaxUploads, MaxMerges, -1, global_max_concurrent, NoProbe)

Next ==
    \/ \E u \in Uploaders, k \in UpKeys, i \in Idx, v \in Versions :
          UcRequest(u, k, i, MaxChunks, v, TRUE)
    \/ \E u \in Uploaders : UcAcquire(u)
    \/ \E u \in Uploaders : UcCheck(u)
    \/ \E u \in Uploaders : UcCreate(u)
    \/ \E u \in Uploaders : UcWrite(u)
    \/ \E u \in Uploaders : UcStreamError(u)
    \/ \E u \in Uploaders : UcWriteError(u)
    \/ \E u \in Uploaders : UcFlush(u)
    \/ \E x \in UpKeys \X Idx : RunSpawnedDelete(x)
    \/ \E m \in Mergers, k \in UpKeys, n \in 1..MaxChunks : MergeRequest(m, k, n)
    \/ \E m \in Mergers : MergeLock(m)
    \/ \E m \in Mergers : MergeCreateTmp(m)
    \/ \E m \in Mergers : MergeCheck(m)
    \/ \E m \in Mergers : MergeCopy(m)
    \/ \E m \in Mergers : MergeRemove(m)
    \/ \E m \in Mergers : MergeSync(m)
    \/ \E m \in Mergers : MergeRename(m)
    \/ \E m \in Mergers : MergeFinish(m)
    \/ \E m \in Mergers : MergeIoError(m)

Spec == Init /\ [][Next]_vars

\* ------------------------------------------- submissions of one chunk
\* Any number of submissions of chunk 0 of the keys in UpKeys, and upload_file
\* requests, compete for the permits; CHUNK_SEMAPHORE is initialised or not.
InitChunk == \E cs \in {-1, ChunkPermits} : Boot(NoParts, cs, -1, 0, -1, global_max_concurrent, NoProbe)

NextChunk ==
    \/ \E u \in Uploaders, k \in UpKeys, v \in Versions, valid \in BOOLEAN :
          UcRequest(u, k, 0, MaxChunks, v, valid)
    \/ \E u \in Uploaders : UcAcquire(u)
    \/ \E u \in Uploaders : UcCheck(u)
    \/ \E u \in Uploaders : UcCreate(u)
    \/ \E u \in Uploaders : UcCreateError(u)
    \/ \E u \in Uploaders : UcSem(u)
    \/ \E u \in Uploaders : UcWrite(u)
    \/ \E u \in Uploaders : UcStreamError(u)
    \/ \E u \in Uploaders : UcWriteError(u)
    \/ \E u \in Uploaders : UcFlush(u)
    \/ \E u \in Uploaders : UcFlushError(u)
    \/ \E k \in UpKeys : RunSpawnedDelete(<<k, 0>>)
    \/ \E f \in FileUploads, k \in UpKeys : UfRequest(f, k, 1)
    \/ \E f \in FileUploads : UfAcquire(f)
    \/ \E f \in FileUploads : UfCreate(f)
    \/ \E f \in FileUploads : UfSem(f)
    \/ \E f \in FileUploads : UfWrite(f)
    \/ \E f \in FileUploads : UfReturn(f)

SpecChunk == InitChunk /\ [][NextChunk]_vars

\* ------------------------------------------------- lock registry under merges
\* Merge requests for keys none of whose parts has been uploaded: every merge
\* takes the per-key lock, creates its scratch file and fails on chunk 0.
InitLock == Boot(NoParts, -1, 0, -1, -1, global_max_concurrent, NoProbe)

NextLock ==
    \/ Tick
    \/ cleanup_file_locks
    \/ \E m \in Mergers, k \in Keys : MergeRequest(m, k, 1)
    \/ \E m \in Mergers : MergeLock(m)
    \/ \E m \in Mergers : MergeCreateTmp(m)
    \/ \E m \in Mergers : MergeCheck(m)

SpecLock == InitLock /\ [][NextLock]_vars

\* ------------------------------------------------ merges of uploaded chunks
\* All chunks of the keys in UpKeys are uploaded; merge requests arrive for
\* any key, so that the registry fills up and get_file_lock evicts.  No clock:
\* only the size-triggered eviction removes entries.
InitMerge == Boot(AllParts, -1, 0, -1, -1, global_max_concurrent, NoProbe)

NextMerge ==
    \/ \E m \in Mergers, k \in Keys : MergeRequest(m, k, MaxChunks)
    \/ \E m \in Mergers : MergeLock(m)
    \/ \E m \in Mergers : MergeCreateTmp(m)
    \/ \E m \in Mergers : MergeCheck(m)
    \/ \E m \in Mergers : MergeCopy(m)
    \/ \E m \in Mergers : MergeRemove(m)
    \/ \E m \in Mergers : MergeSync(m)
    \/ \E m \in Mergers : MergeRename(m)
    \/ \E m \in Mergers : MergeFinish(m)

SpecMerge == InitMerge /\ [][NextMerge]_vars

\* ------------------------------------- merges and whole-file uploads
\* All chunks of the keys in UpKeys are uploaded; merges of these keys run
\* while POST /upload requests store whole files under the same names.
InitDest == Boot(AllParts, -1, 0, -1, -1, global_max_concurrent, NoProbe)

NextDest ==
    \/ \E m \in Mergers, k \in UpKeys : MergeRequest(m, k, MaxChunks)
    \/ \E m \in Mergers : MergeLock(m)
    \/ \E m \in Mergers : MergeCreateTmp(m)
    \/ \E m \in Mergers : MergeCheck(m)
    \/ \E m \in Mergers : MergeCopy(m)
    \/ \E m \in Mergers : MergeRemove(m)
    \/ \E m \in Mergers : MergeSync(m)
    \/ \E m \in Mergers : MergeRename(m)
    \/ \E m \in Mergers : MergeFinish(m)
    \/ \E m \in Mergers : MergeIoError(m)
    \/ \E f \in FileUploads, k \in UpKeys, v \in Versions : UfRequest(f, k, v)
    \/ \E f \in FileUploads : UfAcquire(f)
    \/ \E f \in FileUploads : UfCreate(f)
    \/ \E f \in FileUploads : UfWrite(f)
    \/ \E f \in FileUploads : UfReturn(f)
    \/ \E f \in FileUploads : UfWriteError(f)
    \/ \E k \in UpKeys : RunSpawnedDelete(DestPath(k))

SpecDest == InitDest /\ [][NextDest]_vars

\* ------------------------------------------- admission of merge requests
\* Merge requests through the handler, for a file whose chunks are uploaded,
\* with or without a merge pool, beside whole-file uploads that hold permits.
InitAdmit ==
    \E cs \in {-1, ChunkPermits}, ms \in {-1, merge_max_concurrent} :
        Boot(AllParts, cs, -1, -1, ms, global_max_concurrent, NoProbe)

NextAdmit ==
    \/ \E m \in Mergers, k \in UpKeys, valid \in BOOLEAN : McRequest(m, k, MaxChunks, valid)
    \/ \E m \in Mergers : McPermit(m)
    \/ \E m \in Mergers : McEnter(m)
    \/ \E m \in Mergers : MergeLock(m)
    \/ \E m \in Mergers : MergeCreateTmp(m)
    \/ \E m \in Mergers : MergeCheck(m)
    \/ \E m \in Mergers : MergeCopy(m)
    \/ \E m \in Mergers : MergeRemove(m)
    \/ \E m \in Mergers : MergeSync(m)
    \/ \E m \in Mergers : MergeRename(m)
    \/ \E m \in Mergers : MergeFinish(m)
    \/ \E m \in Mergers : McRespond(m)
    \/ \E f \in FileUploads, k \in UpKeys : UfRequest(f, k, 1)
    \/ \E f \in FileUploads : UfAcquire(f)
    \/ \E f \in FileUploads : UfCreate(f)
    \/ \E f \in FileUploads : UfSem(f)
    \/ \E f \in FileUploads : UfWrite(f)
    \/ \E f \in FileUploads : UfReturn(f)
    \/ \E f \in FileUploads : UfWriteError(f)
    \/ \E k \in UpKeys : RunSpawnedDelete(DestPath(k))

SpecAdmit == InitAdmit /\ [][NextAdmit]_vars

\* --------------------------------------------- one request of each handler
\* One upload_file, one upload_chunk and one merge_chunks request at a time,
\* on every path of each, with and without the two optional pools.
InitPermit ==
    \E cs \in {-1, ChunkPermits}, ms \in {-1, merge_max_concurrent} :
        Boot(NoParts, cs, -1, -1, ms, global_max_concurrent, NoProbe)

PermitMergers == 1..OneEach
PermitUploaders == 1..OneEach

NextPermit ==
    \/ \E m \in PermitMergers, k \in UpKeys, valid \in BOOLEAN : McRequest(m, k, 1, valid)
    \/ \E m \in PermitMergers : McPermit(m)
    \/ \E m \in PermitMergers : McEnter(m)
    \/ \E m \in PermitMergers : MergeLock(m)
    \/ \E m \in PermitMergers : MergeCreateTmp(m)
    \/ \E m \in PermitMergers : MergeCheck(m)
    \/ \E m \in PermitMergers : MergeCopy(m)
    \/ \E m \in PermitMergers : MergeRemove(m)
    \/ \E m \in PermitMergers : MergeSync(m)
    \/ \E m \in PermitMergers : MergeRename(m)
    \/ \E m \in PermitMergers : MergeFinish(m)
    \/ \E m \in PermitMergers : MergeIoError(m)
    \/ \E m \in PermitMergers : McRespond(m)
    \/ \E f \in FileUploads, k \in UpKeys : UfRequest(f, k, 1)
    \/ \E f \in FileUploads : UfAcquire(f)
    \/ \E f \in FileUploads : UfCreate(f)
    \/ \E f \in FileUploads : UfSem(f)
    \/ \E f \in FileUploads : UfWrite(f)
    \/ \E f \in FileUploads : UfReturn(f)
    \/ \E u \in PermitUploaders, k \in UpKeys, valid \in BOOLEAN :
            UcRequest(u, k, 0, MaxChunks, 1, valid)
    \/ \E u \in PermitUploaders : UcAcquire(u)
    \/ \E u \in PermitUploaders : UcCheck(u)
    \/ \E u \in PermitUploaders : UcCreate(u)
    \/ \E u \in PermitUploaders : UcCreateError(u)
    \/ \E u \in PermitUploaders : UcSem(u)
    \/ \E u \in PermitUploaders : UcWrite(u)
    \/ \E u \in PermitUploaders : UcStreamError(u)
    \/ \E u \in PermitUploaders : UcWriteError(u)
    \/ \E u \in PermitUploaders : UcFlush(u)
    \/ \E u \in PermitUploaders : UcFlushError(u)
    \/ \E k \in UpKeys : RunSpawnedDelete(<<k, 0>>)

SpecPermit == InitPermit /\ [][NextPermit]_vars

\* ------------------------------------------------------ closed permit pools
\* The global pool has been closed (tokio's Semaphore::close, the one
\* condition under which acquire() returns Err); the merge pool is closed
\* too or was never initialised.  Requests of the three handlers arrive.
InitClosed == \E ms \in {-1, Closed} : Boot(AllParts, -1, -1, -1, ms, Closed, NoProbe)

NextClosed ==
    \/ \E m \in Mergers, k \in UpKeys, valid \in BOOLEAN : McRequest(m, k, MaxChunks, valid)
    \/ \E m \in Mergers : McPermitClosed(m)
    \/ \E m \in Mergers : McEnter(m)
    \/ \E m \in Mergers : MergeLock(m)
    \/ \E m \in Mergers : MergeCreateTmp(m)
    \/ \E m \in Mergers : MergeCheck(m)
    \/ \E m \in Mergers : MergeCopy(m)
    \/ \E m \in Mergers : MergeRemove(m)
    \/ \E m \in Mergers : MergeSync(m)
    \/ \E m \in Mergers : MergeRename(m)
    \/ \E m \in Mergers : MergeFinish(m)
    \/ \E m \in Mergers : McRespond(m)
    \/ \E u \in Uploaders, k \in UpKeys, i \in Idx, v \in Versions :
            UcRequest(u, k, i, MaxChunks, v, TRUE)
    \/ \E u \in Uploaders : UcAcquireClosed(u)
    \/ \E f \in FileUploads, k \in UpKeys, v \in Versions : UfRequest(f, k, v)
    \/ \E f \in FileUploads : UfAcquireClosed(f)

SpecClosed == InitClosed /\ [][NextClosed]_vars

\* ------------------------------------------------- queries of upload_chunk
\* One chunk request with any filename, relative_path and total_size; temp_dir
\* tells whether ./temp/{module} was created, part_name the part file the
\* request goes on to look for, create and fill from its body.
ChunkQuery(filename, relative_path, total_size) ==
    [kind |-> "chunk_query", filename |-> filename, relative_path |-> relative_path,
     total_size |-> total_size, chunk_number |-> 0,
     res |-> "none", temp_dir |-> FALSE, part_name |-> <<>>]

InitQuery ==
    \E filename \in Strs, relative_path \in Strs \cup {NoPath},
       total_size \in {Absent} \cup (0..MaxDeclared) :
        Boot(NoParts, -1, 0, 0, -1, global_max_concurrent,
             ChunkQuery(filename, relative_path, total_size))

NextQuery == VcHandle

SpecQuery == InitQuery /\ [][NextQuery]_vars

\* ------------------------------------------------------ resume requests
\* One check_file_exists request, for a module whose temp directory holds
\* part files of some files (written by handle_chunk_upload without a
\* relative_path) and whose upload directory may hold the file asked for.
NameChars == {"a", "_"}
FileNames == UNION {[1..n -> NameChars] : n \in 1..MaxNameLen}
PartNames == {temp_filename(NoPath, f, i) : f \in FileNames, i \in Idx}
Hashes == {"h1", "h2"}
Contents == {<<>>} \cup {Body(0, v) : v \in Versions}

ResumeRequest(info, d, dir) ==
    [kind |-> "resume", info |-> info, dest |-> d, dir |-> dir,
     res |-> "none", exists |-> FALSE, can_instant_upload |-> FALSE,
     uploaded_chunks |-> <<>>, can_resume |-> FALSE]

InitResume ==
    \E filename \in FileNames, file_hash \in Hashes, total_size \in {0, BodyLen},
       d \in {NoFile} \cup {File(c) : c \in Contents},
       dir \in {x \in SUBSET PartNames : Cardinality(x) <= MaxParts} :
        Boot(NoParts, -1, 0, 0, -1, global_max_concurrent,
             ResumeRequest([filename |-> filename, file_hash |-> file_hash,
                            total_size |-> total_size], d, dir))

NextResume == CfHandle

SpecResume == InitResume /\ [][NextResume]_vars

\* ---------------------------------------------------------- janitor passes
\* One pass over a directory of ./temp that holds, at different ages, part
\* files and files with other names.
Stem == <<"a">>
TempDirNames ==
    {Stem \o DotPart \o Decimal(0),                \* a.part0
     Stem \o DotPart \o Decimal(1),                \* a.part1
     Stem \o DotPart,                              \* a.part
     Stem \o DotPart \o <<"a">>,                   \* a.parta
     Stem \o DotPart \o Decimal(0) \o <<".", "a">>,   \* a.part0.a
     Stem \o DotTmpDot \o <<"a">>,                 \* a.tmp.a
     Stem \o <<".", "t", "m", "p">>,               \* a.tmp
     Stem}                                         \* a
Ages == {Absent, temp_max_age, temp_max_age + 1}
Passes == {"periodic", "forced", "shutdown"}

InitJanitor ==
    \E files \in [TempDirNames -> Ages] :
        Boot(NoParts, -1, 0, 0, -1, global_max_concurrent,
             [kind |-> "janitor", files |-> files, pass |-> "none", removed |-> {}])

NextJanitor == \E pass \in Passes : cleanup_temp_files_internal(pass)

SpecJanitor == InitJanitor /\ [][NextJanitor]_vars

\* ------------------------------------------- merges and a filled tracker
\* Merges of an uploaded file, succeeding and failing, while progress entries
\* are recorded through update_progress for that file and for another.
TrackKeys == 1..(NumUpKeys + 1)

InitTrack == Boot(AllParts, -1, 0, -1, -1, global_max_concurrent, NoProbe)

NextTrack ==
    \/ \E k \in TrackKeys : update_progress(k)
    \/ \E m \in Mergers, k \in UpKeys : MergeRequest(m, k, MaxChunks)
    \/ \E m \in Mergers : MergeLock(m)
    \/ \E m \in Mergers : MergeCreateTmp(m)
    \/ \E m \in Mergers : MergeCheck(m)
    \/ \E m \in Mergers : MergeCopy(m)
    \/ \E m \in Mergers : MergeRemove(m)
    \/ \E m \in Mergers : MergeSync(m)
    \/ \E m \in Mergers : MergeRename(m)
    \/ \E m \in Mergers : MergeFinish(m)
    \/ \E m \in Mergers : MergeIoError(m)

SpecTrack == InitTrack /\ [][NextTrack]_vars

\* ---------------------------------------------------------------- shutdown
\* The server with uploaded chunks, whole-file uploads and merges in flight,
\* the clock, and the shutdown signal at any moment.
InitShutdown == Boot(AllParts, -1, 0, -1, -1, global_max_concurrent, NoProbe)

NextShutdown ==
    \/ \E m \in Mergers, k \in UpKeys : MergeRequest(m, k, MaxChunks)
    \/ \E m \in Mergers : MergeLock(m)
    \/ \E m \in Mergers : MergeCreateTmp(m)
    \/ \E m \in Mergers : MergeCheck(m)
    \/ \E m \in Mergers : MergeCopy(m)
    \/ \E m \in Mergers : MergeRemove(m)
    \/ \E m \in Mergers : MergeSync(m)
    \/ \E m \in Mergers : MergeRename(m)
    \/ \E m \in Mergers : MergeFinish(m)
    \/ \E f \in FileUploads, k \in UpKeys : UfRequest(f, k, 1)
    \/ \E f \in FileUploads : UfAcquire(f)
    \/ \E f \in FileUploads : UfCreate(f)
    \/ \E f \in FileUploads : UfWrite(f)
    \/ \E f \in FileUploads : UfReturn(f)
    \/ Tick
    \/ ShutSignal
    \/ ShutStopped
    \/ ShutLocks
    \/ ShutTemp
    \/ ShutExit

SpecShutdown == InitShutdown /\ [][NextShutdown]_vars

\* ------------------------------------------ merges of two logical files
NameA == <<"a">>
NameA_A == <<"a", "_", "a">>
PathAA == <<"a", "/", "a">>
LogicalFiles ==
    [module : {NameA, NameA_A},
     relative_path : {NoPath, NameA, NameA_A, PathAA},
     filename : {NameA, NameA_A}]

KeysProbe(f1, f2, i1, i2) ==
    [kind |-> "keys", files |-> <<f1, f2>>, chunk |-> <<i1, i2>>, named |-> FALSE,
     part_path |-> <<>>, lock_key |-> <<>>, progress_key |-> <<>>]

InitKeys ==
    \E f1 \in LogicalFiles, f2 \in LogicalFiles, i1 \in Idx, i2 \in Idx :
        Boot(NoParts, -1, 0, -1, -1, global_max_concurrent, KeysProbe(f1, f2, i1, i2))

NextKeys ==
    \/ NameFiles
    \/ \E m \in Mergers : KeyedMergeRequest(m)
    \/ \E m \in Mergers : MergeLock(m)
    \/ \E m \in Mergers : MergeCreateTmp(m)
    \/ \E m \in Mergers : MergeCheck(m)

SpecKeys == InitKeys /\ [][NextKeys]_vars

\* ------------------------------------------- merges by main_bak.rs
InitBak == Boot(AllParts, -1, 0, -1, -1, global_max_concurrent, NoProbe)

NextBak ==
    \/ \E m \in Mergers, k \in UpKeys, n \in 1..MaxChunks : MergeRequest(m, k, n)
    \/ \E m \in Mergers : MergeLock(m)
    \/ \E m \in Mergers : MergeCreateTmp(m)
    \/ \E m \in Mergers : MergeCheck(m)
    \/ \E m \in Mergers : MergeCopy(m)
    \/ \E m \in Mergers : MergeRemove(m)
    \/ \E m \in Mergers : MergeSync(m)
    \/ \E m \in Mergers : MergeSyncIgnored(m)
    \/ \E m \in Mergers : MergeRename(m)
    \/ \E m \in Mergers : MergeRenameUnsynced(m)
    \/ \E m \in Mergers : MergeFinish(m)

SpecBak == InitBak /\ [][NextBak]_vars

\* ------------------------------------------- janitor passes over the tree
\* One pass over a tree that holds part files, merge scratch files and other
\* files at different places: in ./temp itself, in a module's directory
\* ./temp/{module}, in a directory below it, and next to the destination in
\* ./uploads/{module} (where merge_chunks_internal creates its scratch file).
PartName0 == Stem \o DotPart \o Decimal(0)
ScratchName == Stem \o DotTmpDot \o <<"a">>
TreePaths ==
    {[place |-> "temp", name |-> PartName0],
     [place |-> "module", name |-> PartName0],
     [place |-> "module", name |-> ScratchName],
     [place |-> "module", name |-> Stem],
     [place |-> "deeper", name |-> PartName0],
     [place |-> "uploads", name |-> ScratchName],
     [place |-> "uploads", name |-> Stem]}
AtMostOne(S) == {{}} \cup {{x} : x \in S}

InitTree ==
    \E files \in [TreePaths -> Ages] :
        Boot(NoParts, -1, 0, 0, -1, global_max_concurrent,
             [kind |-> "tree", files |-> files, pass |-> "none", failed |-> {},
              removed |-> {}])

NextTree == \E pass \in Passes, failing \in AtMostOne(TreePaths) : cleanup_temp_tree(pass, failing)

SpecTree == InitTree /\ [][NextTree]_vars

\* ------------------------------------- periodic cleanup of the two tables
\* The passes of the background task while a client's merge requests fill the
\* registry, update_progress fills the tracker and the hours go by.
InitPass == Boot(NoParts, -1, 0, -1, -1, global_max_concurrent, NoPass)

NextPass ==
    \/ Tick
    \/ PassTick
    \/ PassLocks
    \/ cleanup_expired(progress_max_age)
    \/ PassTemp
    \/ \E k \in TrackKeys : update_progress(k)
    \/ \E m \in PermitMergers, k \in TrackKeys : MergeRequest(m, k, 1)
    \/ \E m \in PermitMergers : MergeLock(m)
    \/ \E m \in PermitMergers : MergeCreateTmp(m)
    \/ \E m \in PermitMergers : MergeCheck(m)

SpecPass == InitPass /\ [][NextPass]_vars

\* --------------------------------------------- the registry mutex
\* Merges whose calls of get_file_lock contend for the registry mutex, with the
\* cleanup.  The tokio mutex is fair (FIFO) and the map operation under it
\* ends; nothing is assumed of the steps of a merge.
InitRegistry == Boot(NoParts, -1, 0, -1, -1, global_max_concurrent, NoProbe)

NextRegistry ==
    \/ Tick
    \/ RegistryCleanup
    \/ \E m \in Mergers, k \in UpKeys \cup {NumKeys} : MergeArrive(m, k, 1)
    \/ \E m \in Mergers : RegistryLock(m)
    \/ \E m \in Mergers : RegistryReturn(m)
    \/ \E m \in Mergers : MergeLock(m)
    \/ \E m \in Mergers : MergeCreateTmp(m)
    \/ \E m \in Mergers : MergeCheck(m)

SpecRegistry ==
    /\ InitRegistry /\ [][NextRegistry]_vars
    /\ \A m \in Mergers : SF_vars(RegistryLock(m)) /\ WF_vars(RegistryReturn(m))

\* ------------------------------------- periodic cleanup during merges
\* The chunks of a file were uploaded more than 24 hours ago (every part file
\* is older than the limit of the temp cleanup); merges of the file run while
\* the background task makes its passes.
InitSweep == Boot(AllParts, -1, 0, -1, -1, global_max_concurrent, NoPass)

NextSweep ==
    \/ PassTick
    \/ PassLocks
    \/ cleanup_expired(progress_max_age)
    \/ PassTemp
    \/ \E m \in Mergers, k \in UpKeys : MergeRequest(m, k, MaxChunks)
    \/ \E m \in Mergers : MergeLock(m)
    \/ \E m \in Mergers : MergeCreateTmp(m)
    \/ \E m \in Mergers : MergeCheck(m)
    \/ \E m \in Mergers : MergeCopy(m)
    \/ \E m \in Mergers : MergeRemove(m)
    \/ \E m \in Mergers : MergeSync(m)
    \/ \E m \in Mergers : MergeRename(m)
    \/ \E m \in Mergers : MergeFinish(m)

SpecSweep == InitSweep /\ [][NextSweep]_vars

\* ------------------------------------ waiting for permits and locks
\* One upload_chunk, one upload_file and two merge_chunks requests of one
\* logical file at a time, on two global permits and one CHUNK_SEMAPHORE
\* permit; the clients send LiveUploads chunk submissions, MaxMerges merges and
\* any number of whole files (of an empty body).  All I/O succeeds.
\* tokio's Semaphore and Mutex serve their waiters in order, so an acquisition
\* that can be made again and again is made (strong fairness); every other
\* step of a request is an await on I/O that ends, or code the runtime
\* schedules (weak fairness).  get_file_lock has no await between taking and
\* dropping the registry mutex and is one step here (SpecRegistry follows it
\* step by step).

InitLive == Boot(NoParts, ChunkPermits, LiveUploads, MaxMerges, -1, global_max_concurrent, NoProbe)

\* merge requests not yet counted by merge_chunk_files
MergesAnnounced == Cardinality({m \in Mergers : hpc[m] \in {"permit", "admitted"}})

NextLive ==
    \/ \E m \in Mergers, k \in UpKeys :
            MergesAnnounced < mergesLeft /\ McRequest(m, k, 1, TRUE)
    \/ \E m \in Mergers : McPermit(m)
    \/ \E m \in Mergers : McEnter(m)
    \/ \E m \in Mergers : MergeLock(m)
    \/ \E m \in Mergers : MergeCreateTmp(m)
    \/ \E m \in Mergers : MergeCheck(m)
    \/ \E m \in Mergers : MergeCopy(m)
    \/ \E m \in Mergers : MergeRemove(m)
    \/ \E m \in Mergers : MergeSync(m)
    \/ \E m \in Mergers : MergeRename(m)
    \/ \E m \in Mergers : MergeFinish(m)
    \/ \E m \in Mergers : McRespond(m)
    \/ \E f \in FileUploads, k \in UpKeys : UfRequest(f, k, 1)
    \/ \E f \in FileUploads : UfAcquire(f)
    \/ \E f \in FileUploads : UfCreate(f)
    \/ \E f \in FileUploads : UfSem(f)
    \/ \E f \in FileUploads : UfReturn(f)
    \/ \E u \in PermitUploaders, k \in UpKeys : UcRequest(u, k, 0, MaxChunks, 1, TRUE)
    \/ \E u \in PermitUploaders : UcAcquire(u)
    \/ \E u \in PermitUploaders : UcCheck(u)
    \/ \E u \in PermitUploaders : UcCreate(u)
    \/ \E u \in PermitUploaders : UcSem(u)
    \/ \E u \in PermitUploaders : UcWrite(u)
    \/ \E u \in PermitUploaders : UcFlush(u)

FairLive ==
    /\ \A m \in Mergers :
        /\ SF_vars(McPermit(m)) /\ SF_vars(MergeLock(m))
        /\ WF_vars(McEnter(m)) /\ WF_vars(MergeCreateTmp(m)) /\ WF_vars(MergeCheck(m))
        /\ WF_vars(MergeCopy(m)) /\ WF_vars(MergeRemove(m)) /\ WF_vars(MergeSync(m))
        /\ WF_vars(MergeRename(m)) /\ WF_vars(MergeFinish(m)) /\ WF_vars(McRespond(m))
    /\ \A f \in FileUploads :
        /\ SF_vars(UfAcquire(f)) /\ SF_vars(UfSem(f))
        /\ WF_vars(UfCreate(f)) /\ WF_vars(UfReturn(f))
    /\ \A u \in PermitUploaders :
        /\ SF_vars(UcAcquire(u)) /\ SF_vars(UcSem(u))
        /\ WF_vars(UcCheck(u)) /\ WF_vars(UcCreate(u)) /\ WF_vars(UcWrite(u))
        /\ WF_vars(UcFlush(u))

SpecLive == InitLive /\ [][NextLive]_vars /\ FairLive

\* ------------------------------------------------------------------ claims
\* check_file_exists: the indices of the part files found in the temp directory
uploaded_chunks(k) == {i \in Idx : part[<<k, i>>].ex}

\* the part file at x holds all the bytes of a submission that returned success
Intact(x) == part[x].by # 0 /\ part[x].data = Body(x[2], part[x].by)

\* a submission has created the part file at x and has not returned
Writing(x) == \E u \in Uploaders : upc[u] \in {"sem", "write"} /\ PathOf(u) = x

\* d is the bodies of chunks 0..n-1, in order, each of one submission
IsMerged(d, n) ==
    /\ Len(d) = n * BodyLen
    /\ \A i \in 0..(n - 1) :
          \E v \in Versions : SubSeq(d, i * BodyLen + 1, (i + 1) * BodyLen) = Body(i, v)

\* chunks 0..n-1 of the submissions of version v, concatenated
RECURSIVE Cat(_, _)
Cat(n, v) == IF n = 0 THEN <<>> ELSE Cat(n - 1, v) \o Body(n - 1, v)

StrictPrefix(a, b) == Len(a) < Len(b) /\ a = SubSeq(b, 1, Len(a))

\* upload_file and upload_chunk requests past permit acquisition, not yet returned
Admitted ==
    Cardinality({u \in Uploaders : upc[u] \notin {"idle", "acquire"}})
        + Cardinality({f \in FileUploads : fpc[f] \notin {"idle", "acquire"}})

\* C1: two merges of the same key are never both between acquiring the
\* per-key lock and releasing it.
C1_MergeMutualExclusion ==
    \A m1, m2 \in Mergers :
        (m1 # m2 /\ InCS(m1) /\ InCS(m2)) => mreq[m1].key # mreq[m2].key

\* C2: when a merge with total_chunks = n succeeds, the final artifact is the
\* bodies of chunks 0..n-1 in order.
C2_MergedContent ==
    \A m \in Mergers :
        mpc[m] = "finish" =>
            /\ dest[mreq[m].key].ex
            /\ IsMerged(dest[mreq[m].key].data, mreq[m].total_chunks)

\* C3: while a merge of a key is in progress its destination changes only by
\* the rename of a scratch file the whole loop has filled, and so never comes to
\* hold a strict prefix of the merged content.
C3_DestinationAtomic ==
    [][\A k \in UpKeys :
        ((\E m \in Mergers : mpc[m] # "idle" /\ mreq[m].key = k) /\ dest'[k] # dest[k])
            => /\ \E m \in Mergers :
                    /\ mpc[m] = "rename" /\ mpc'[m] = "finish"
                    /\ mreq[m].key = k
                    /\ mi[m] = mreq[m].total_chunks
                    /\ dest'[k] = File(scratch[m].data)
               /\ ~StrictPrefix(dest'[k].data, Cat(MaxChunks, 1))]_vars

\* C4: a part file that check_file_exists (or the merge loop) finds present
\* holds all the bytes of a submission that returned success.
C4_PresentIsComplete ==
    \A k \in UpKeys : \A i \in uploaded_chunks(k) : Intact(<<k, i>>)

\* C5: once a submission of a chunk has returned success (and no merge has
\* consumed the part), a submission that reaches the existence check takes the
\* "exists" return, and the part file, when nobody is writing it, holds the
\* whole body of a successful submission.
C5_IdempotentResubmit ==
    /\ [][\A u \in Uploaders :
            (upc[u] = "check" /\ upc'[u] # "check" /\ ureq[u].valid /\ PathOf(u) \in acked)
                => ures'[u].kind = "exists"]_vars
    /\ [](\A x \in acked : ~Writing(x) => (part[x].ex /\ Intact(x)))

\* C6: a merge that finds the part of its index i absent returns the error
\* naming i, deletes its scratch file and leaves the destination as it is.
C6_MissingChunk ==
    [][\A m \in Mergers :
        (/\ mpc[m] = "check" /\ mpc'[m] # "check"
         /\ mi[m] < mreq[m].total_chunks
         /\ ~part[<<mreq[m].key, mi[m]>>].ex)
            => /\ mpc'[m] = "idle"
               /\ mres'[m] = [kind |-> "missing", idx |-> mi[m]]
               /\ ~scratch'[m].ex
               /\ orphans' = orphans
               /\ dest' = dest]_vars

\* a merge has consumed chunk 0 and failed on the absent chunk 1
C6_Witness ==
    \E m \in Mergers :
        /\ mres[m] = [kind |-> "missing", idx |-> 1]
        /\ ~scratch[m].ex /\ m \notin orphans
        /\ \A k \in UpKeys : ~dest[k].ex

\* C7: of the merges of one key over the uploaded parts at most one gets to
\* the successful end at a time, and the destination holds the parts in order.
C7_OneWinner ==
    /\ \A m1, m2 \in Mergers :
          (m1 # m2 /\ mpc[m1] = "finish" /\ mpc[m2] = "finish")
              => mreq[m1].key # mreq[m2].key
    /\ \A k \in UpKeys : dest[k].ex => dest[k].data = Cat(MaxChunks, 1)

\* C8: the registry never holds more than max_memory_locks entries.
C8_RegistryBounded == Len(locks) <= max_memory_locks

\* the registry is full again after an eviction has discarded entries
C8_Witness == evicted /\ Len(locks) = max_memory_locks

\* C9: a get_file_lock step never removes (or replaces the mutex of) a
\* registry entry whose mutex is locked by a merge in progress.
C9_EvictionSparesHeld ==
    [][(\E m \in Mergers : mpc[m] = "idle" /\ mpc'[m] = "lockwait") =>
         \A j \in 1..Len(locks) :
            Locked(locks[j].lock) =>
                (HasEntry(locks', locks[j].key)
                    /\ EntryOf(locks', locks[j].key).lock = locks[j].lock)]_vars

\* C10: the upload_file and upload_chunk requests past permit acquisition are
\* at most global_max_concurrent, and each holds a permit until it returns.
C10_PermitBound ==
    /\ Admitted <= global_max_concurrent
    /\ globalPermits = global_max_concurrent - Admitted

\* every permit is taken and a further request waits for one
C10_Witness ==
    /\ globalPermits = 0
    /\ Admitted = global_max_concurrent
    /\ \/ \E u \in Uploaders : upc[u] = "acquire"
       \/ \E f \in FileUploads : fpc[f] = "acquire"

\* the merges that are inside merge_chunk_files
RunningMerges == {m \in Mergers : hpc[m] = "run" /\ mpc[m] # "idle"}

\* C11: the merges running merge_chunk_files are never more than the permits
\* of the merge pool or, when the merge pool was never initialised, than the
\* permits of the global pool less the uploads and chunks in flight.
C11_MergesWithinPool ==
    IF mergeSem # -1
    THEN Cardinality(RunningMerges) <= merge_max_concurrent
    ELSE Cardinality(RunningMerges) + Admitted <= global_max_concurrent

\* C12: whenever no request is in flight, every pool has all its permits.
C12_PermitsReleased ==
    NoRequestInFlight =>
        /\ globalPermits = global_max_concurrent
        /\ chunkSem \in {-1, ChunkPermits}
        /\ mergeSem \in {-1, merge_max_concurrent}

\* the server is idle again after a chunk was written under a CHUNK_SEMAPHORE
\* permit, a chunk request was rejected, a merge succeeded and a merge failed
C12_Witness ==
    /\ NoRequestInFlight
    /\ chunkSem = ChunkPermits
    /\ mergeSem = merge_max_concurrent
    /\ ures[1].kind = "written"
    /\ mres[1].kind = "ok"
    /\ active_uploads > 0

HasParentSegment(str) ==
    \E i \in 1..(Len(str) - 1) :
        /\ str[i] = "." /\ str[i + 1] = "."
        /\ (i = 1 \/ str[i - 1] = "/")
        /\ (i + 1 = Len(str) \/ str[i + 2] = "/")

\* the path starts at the root
IsAbsolute(str) == Len(str) > 0 /\ str[1] = "/"

Traversing(str) == HasParentSegment(str) \/ IsAbsolute(str)

\* C14: a chunk request whose filename or relative_path has a parent-directory
\* segment or an absolute-path marker is answered with a client error and has
\* created neither the temp directory nor a part file.
C14_TraversalRejected ==
    (/\ probe.kind = "chunk_query"
     /\ probe.res # "none"
     /\ \/ Traversing(probe.filename)
        \/ probe.relative_path # NoPath /\ Traversing(probe.relative_path))
        => (probe.res = "bad_request" /\ ~probe.temp_dir /\ probe.part_name = <<>>)

\* C15: a chunk request whose declared total_size is above the maximum file
\* size is answered with a client error and has created neither the temp
\* directory nor a part file (whose creation comes before the body is read).
C15_OversizeRejected ==
    (/\ probe.kind = "chunk_query"
     /\ probe.res # "none"
     /\ probe.total_size # Absent
     /\ probe.total_size > max_file_size)
        => (probe.res = "bad_request" /\ ~probe.temp_dir /\ probe.part_name = <<>>)

\* the indices of the part files of the file named filename, in ascending order
RECURSIVE Ascending(_, _)
Ascending(S, top) ==
    IF top < 0 THEN <<>>
    ELSE Ascending(S, top - 1) \o (IF top \in S THEN <<top>> ELSE <<>>)

PartsOf(dir, filename) == {i \in Idx : temp_filename(NoPath, filename, i) \in dir}

\* C16: when the complete final artifact is not there, uploaded_chunks is the
\* ascending list, without duplicates, of the indices of the part files of the
\* file asked for, and can_resume tells whether the list is non-empty.
C16_UploadedChunksExact ==
    (/\ probe.kind = "resume"
     /\ probe.res = "ok"
     /\ ~probe.exists)
        => /\ probe.uploaded_chunks
                = Ascending(PartsOf(probe.dir, probe.info.filename), MaxChunks - 1)
           /\ probe.can_resume = (probe.uploaded_chunks # <<>>)

\* C17: exists and can_instant_upload are true exactly when a file is at the
\* destination and its size is the declared total_size.
C17_InstantUploadBySize ==
    (probe.kind = "resume" /\ probe.res = "ok")
        => /\ probe.exists = (probe.dest.ex /\ Len(probe.dest.data) = probe.info.total_size)
           /\ probe.can_instant_upload = probe.exists

\* the file at the destination has the declared size and content that is
\* not the body of submission 1, and the answer is exists
C17_Witness ==
    /\ probe.kind = "resume" /\ probe.res = "ok"
    /\ probe.exists /\ probe.can_instant_upload
    /\ probe.info.total_size = BodyLen
    /\ probe.dest.data = Body(0, 2)
    /\ probe.info.file_hash = "h1"

\* {name}.part{index}: the name ends in ".part" and a decimal index
IsPartName(file_name) == PartMatch(file_name) > 1

\* {path}.tmp.{token}: ".tmp." with a path before it and a token after it
IsScratchName(file_name) ==
    \E i \in 2..(Len(file_name) - Len(DotTmpDot)) :
        SubSeq(file_name, i, i + Len(DotTmpDot) - 1) = DotTmpDot

\* C18: a pass of the Janitor removes no file whose name is neither a part
\* name nor a merge scratch name, whatever its age.
C18_JanitorSparesOthers ==
    (probe.kind = "janitor" /\ probe.pass # "none")
        => \A x \in probe.removed : IsPartName(x) \/ IsScratchName(x)

\* C19: when a chunk write for a key returns success, the progress tracker
\* holds an entry for that key.
C19_ProgressAfterWrite ==
    [][\A u \in Uploaders :
            (upc[u] # "idle" /\ upc'[u] = "idle" /\ ures'[u].kind = "written")
                => \E e \in progresses' : e.key = ureq[u].key]_vars

\* C20: when a merge returns success the progress tracker holds no entry for
\* its key; when a merge returns an error the tracker is as it was.
C20_TrackerAfterMerge ==
    [][\A m \in Mergers :
            (mpc[m] # "idle" /\ mpc'[m] = "idle")
                => IF mres'[m].kind = "ok"
                   THEN \A e \in progresses' : e.key # mreq[m].key
                   ELSE progresses' = progresses]_vars

\* one merge has returned success and another an error, and of the entries
\* recorded for every key the one of the merged file is gone
C20_Witness ==
    \E m1, m2 \in Mergers :
        /\ mres[m1].kind = "ok"
        /\ mres[m2].kind \in {"missing", "ioerr"}
        /\ {e.key : e \in progresses} = TrackKeys \ UpKeys

\* a handler or a merge starts on a request
RequestAccepted ==
    \/ \E u \in Uploaders : upc[u] = "idle" /\ upc'[u] # "idle"
    \/ \E f \in FileUploads : fpc[f] = "idle" /\ fpc'[f] # "idle"
    \/ \E m \in Mergers : hpc[m] = "idle" /\ mpc[m] = "idle"
                            /\ (hpc'[m] # "idle" \/ mpc'[m] # "idle")

\* C21: a shutdown stops the acceptance of requests, then runs the three
\* steps of a periodic pass once, then exits; from the stop on no request is
\* accepted.
C21_ShutdownOrder ==
    /\ [](phase = "exited" => shutlog = <<"stop">> \o PeriodicSteps \o <<"exit">>)
    /\ [][phase # "running" => ~RequestAccepted]_vars

\* the merge requests between ACTIVE_UPLOADS.fetch_add and their response
MergesInFlight == {m \in Mergers : hpc[m] \in {"admitted", "run"}}

\* C22: the active-uploads counter is the number of upload, chunk and merge
\* operations in flight (and so 0 when there is none).
C22_ActiveUploadsExact ==
    active_uploads = Admitted + Cardinality(MergesInFlight)

\* merger m1 waits for the per-key mutex that merger m2 holds
LockWaitsOn(m1, m2) ==
    m1 # m2 /\ mpc[m1] = "lockwait" /\ InCS(m2) /\ mh[m1] = mh[m2]

\* C23: a merge never waits on the per-key lock held by a merge of a different
\* logical file (one that differs in module, filename or relative_path).
C23_DistinctKeysNeverWait ==
    probe.kind = "keys" =>
        \A m1 \in Mergers, m2 \in Mergers :
            LockWaitsOn(m1, m2) => probe.files[m1] = probe.files[m2]

\* C24: two distinct logical files never share a part file, a lock entry or a
\* progress entry: the three name mappings are injective.
C24_NamesInjective ==
    (probe.kind = "keys" /\ probe.named) =>
        /\ (probe.files[1] # probe.files[2] \/ probe.chunk[1] # probe.chunk[2])
               => probe.part_path[1] # probe.part_path[2]
        /\ probe.files[1] # probe.files[2] => probe.lock_key[1] # probe.lock_key[2]
        /\ probe.files[1] # probe.files[2] => probe.progress_key[1] # probe.progress_key[2]

\* merger m calls get_file_lock in this step and finds the registry full
EvictingCall(m) ==
    /\ mpc[m] = "idle" /\ mpc'[m] = "lockwait"
    /\ Len(locks) >= max_memory_locks

\* C25: when get_file_lock finds the registry at its maximum size, every entry
\* it discards was last used no later than every entry it keeps (the entry of
\* the requested key, which the call re-creates, aside).
C25_EvictionKeepsNewest ==
    [][\A m \in Mergers : EvictingCall(m) =>
          \A d \in 1..Len(locks), e \in 1..Len(locks) :
              ( /\ locks[d].key # mreq'[m].key
                /\ locks[e].key # mreq'[m].key
                /\ ~HasEntry(locks', locks[d].key)
                /\ HasEntry(locks', locks[e].key) )
              => locks[d].age >= locks[e].age]_vars

\* merger m returns in this step because the part of index k is missing
AbortsMissing(m, k) ==
    /\ mpc[m] = "check" /\ mpc'[m] = "idle"
    /\ mres'[m] = [kind |-> "missing", idx |-> k]

\* C26: when a merge aborts because the part of index k is missing, the parts
\* 0..k-1 it has appended are still on disk.
C26_AbortKeepsParts ==
    [][\A m \in Mergers, k \in Idx :
          AbortsMissing(m, k) =>
              \A i \in 0..(k - 1) : part'[<<mreq[m].key, i>>].ex]_vars

\* uploader u answers success in this step to a submission that retries a
\* part whose write failed before
RetrySucceeds(u) ==
    /\ upc[u] # "idle" /\ upc'[u] = "idle"
    /\ ureq[u].retry
    /\ ures'[u].kind \in {"written", "exists"}

\* C27: when the retry of a chunk whose write failed returns success, the part
\* file exists and holds the whole body the retry sent.
C27_RetryLeavesWholePart ==
    [][\A u \in Uploaders :
          RetrySucceeds(u) =>
              /\ part'[PathOf(u)].ex
              /\ part'[PathOf(u)].data = Body(ureq[u].chunk_number, ureq[u].v)]_vars

\* C28: a merge that began after every chunk of its key was answered with
\* success (none of them consumed by an earlier merge) does not fail with a
\* missing-chunk error.
C28_MergeFindsAckedParts ==
    [][\A m \in Mergers :
          (mpc[m] # "idle" /\ mreq[m].whole) => mres'[m].kind # "missing"]_vars

\* merger m renames its scratch file onto the destination in this step
Renames(m) == mpc[m] # "finish" /\ mpc'[m] = "finish"

\* the fsync of merger m's scratch file fails in this step
FsyncFails(m) == mpc[m] = "sync" /\ mpc'[m] # "sync" /\ mpc'[m] # "rename"

\* C29: a merge renames its scratch file onto the destination only after all
\* its parts have been appended and the fsync has succeeded; a failed fsync ends
\* the merge without a rename and leaves the destination as it is.
C29_RenameAfterFsync ==
    /\ [][\A m \in Mergers :
            Renames(m) => (mpc[m] = "rename" /\ mi[m] = mreq[m].total_chunks)]_vars
    /\ [][\A m \in Mergers :
            FsyncFails(m) => (mpc'[m] = "idle" /\ dest' = dest)]_vars

\* the path lies under the temp area, at any depth
UnderTemp(x) == x.place \in {"temp", "module", "deeper"}

\* the file at x is older than 24 hours and named as a part or a merge scratch file
StaleTemp(x) ==
    /\ probe.files[x] # Absent
    /\ probe.files[x] > temp_max_age
    /\ IsPartName(x.name) \/ IsScratchName(x.name)

\* C30: a pass of the Janitor removes a file iff it lies under the temp area (at
\* any depth), has a part or merge-scratch name and is older than 24 hours, a
\* failed deletion aside; in particular every merge scratch file older than 24
\* hours is removed.
C30_JanitorSweep ==
    (probe.kind = "tree" /\ probe.pass # "none") =>
        \A x \in TreePaths :
            /\ x \in probe.removed => (UnderTemp(x) /\ StaleTemp(x))
            /\ (UnderTemp(x) /\ StaleTemp(x) /\ x \notin probe.failed) => x \in probe.removed
            /\ (IsScratchName(x.name) /\ StaleTemp(x) /\ x \notin probe.failed)
                   => x \in probe.removed

\* the periodic task's call of cleanup_file_locks / cleanup_expired in this step
LocksCleanup == probe.kind = "pass" /\ probe.step = "locks" /\ probe'.step = "progress"
ProgressCleanup == probe.kind = "pass" /\ probe.step = "progress" /\ probe'.step = "temp"

C32_RegistryCallCompletes ==
    \A m \in Mergers : (mpc[m] = "regwait") ~> (mpc[m] = "lockwait")

\* a call of get_file_lock for a key is under way while a merge of that key
\* holds the key's lock
C32_Witness ==
    \E m1 \in Mergers, m2 \in Mergers :
        InCS(m1) /\ mpc[m2] = "registry" /\ mreq[m1].key = mreq[m2].key

\* merger m holds the per-key mutex it asked the registry for
HoldsLock(m) == InCS(m) /\ mh[m] # 0

\* merger m returns from merge_chunk_files in this step
MergeReturns(m) == mpc[m] # "idle" /\ mpc'[m] = "idle"

\* C33: a merge has its scratch file only while it holds the per-key lock, it
\* renames or aborts while holding it, and on every return (success, missing
\* chunk, I/O error) it lets the lock go: a finished merge holds no lock.
C33_LockSpansMerge ==
    /\ [](\A m \in Mergers : scratch[m].ex => HoldsLock(m))
    /\ [](\A m \in Mergers : mpc[m] = "idle" => mh[m] = 0)
    /\ [][\A m \in Mergers :
            /\ (scratch'[m] # scratch[m] \/ Renames(m)) => HoldsLock(m)
            /\ MergeReturns(m) =>
                   /\ mres'[m].kind \in {"ok", "missing", "ioerr"}
                   /\ HoldsLock(m)
                   /\ ~\E o \in Mergers : InCS(o)' /\ mh'[o] = mh[m]]_vars

\* a merge has returned with success, another with an I/O error, and none is
\* running
C33_Witness ==
    /\ \A m \in Mergers : mpc[m] = "idle"
    /\ {mres[m].kind : m \in Mergers} = {"ok", "ioerr"}
    /\ Len(locks) > 0

\* no merge of key k is running
NoMergeOf(k) == \A m \in Mergers : mpc[m] = "idle" \/ mreq[m].key # k

\* C34: for a key whose chunks were all uploaded, once no merge of it is
\* running each chunk is held in its part file or in the final artifact: no
\* outcome of a merge leaves a part deleted without the artifact produced.
C34_ChunksNeverLost ==
    \A k \in UpKeys : NoMergeOf(k) =>
        \A i \in Idx :
            \/ part[<<k, i>>].ex
            \/ dest[k].ex /\ IsMerged(dest[k].data, MaxChunks)

\* the temp cleanup of the periodic task removes the part file at x in this step
JanitorDeletes(x) ==
    /\ probe.kind = "pass" /\ probe.step = "temp" /\ probe'.step = "idle"
    /\ part[x].ex /\ ~part'[x].ex

\* C35: the Janitor deletes no part file of a key while a merge of that key
\* holds the key's lock, however old the part is.
C35_JanitorSparesMerging ==
    [][\A x \in UpKeys \X Idx :
          JanitorDeletes(x) => ~\E m \in Mergers : HoldsLock(m) /\ mreq[m].key = x[1]]_vars

\* C36: once a merge has returned, with success, with a missing chunk or with
\* an I/O error, no scratch file it created is left on disk.
C36_NoScratchLeft ==
    \A m \in Mergers : mpc[m] = "idle" => (~scratch[m].ex /\ m \notin orphans)

\* C37: no request is stuck for ever.  Under fair scheduling and I/O that
\* ends, a handler waiting for a global or merge permit, for a CHUNK_SEMAPHORE
\* permit or for the lock of its logical file obtains it and completes: every
\* request that has started returns (a handler returns only after it has
\* passed each of its acquisitions).
C37_NoDeadlock ==
    /\ \A u \in PermitUploaders : (upc[u] # "idle") ~> (upc[u] = "idle")
    /\ \A f \in FileUploads : (fpc[f] # "idle") ~> (fpc[f] = "idle")
    /\ \A m \in Mergers : (hpc[m] # "idle") ~> (hpc[m] = "idle")

\* a merge waits for the lock another merge holds, while the chunk handler
\* waits for the CHUNK_SEMAPHORE permit upload_file holds and both global
\* permits are taken
C37_Witness ==
    /\ \E m1, m2 \in Mergers : HoldsLock(m1) /\ mpc[m2] = "lockwait" /\ mh[m2] = mh[m1]
    /\ \E u \in PermitUploaders, f \in FileUploads : upc[u] = "sem" /\ fpc[f] = "write"
    /\ chunkSem = 0
    /\ globalPermits = 0

\* C38: when submissions of one chunk have overlapped and each has returned
\* success for a body it wrote, the part file holds the complete body of one
\* of them: it is not cut short and not a mixture of the bodies.
C38_OverlapLeavesOneBody ==
    \A k \in UpKeys :
        (/\ \A u \in Uploaders : upc[u] = "idle" /\ ures[u].kind = "written"
         /\ pendingRm = {}
         /\ part[<<k, 0>>].ex)
        => \E v \in Versions : part[<<k, 0>>].data = Body(0, v)

\* C39: every success answer of upload_chunk, for a part newly written or one
\* already there, carries a next_chunk that is none (-1) or an index below
\* total_chunks, and none when the chunk is the last (chunk_number + 1 =
\* total_chunks).
C39_NextChunkInRange ==
    [][\A u \in Uploaders :
        (upc[u] # "idle" /\ upc'[u] = "idle" /\ ures'[u].kind \in {"written", "exists"})
        => /\ \/ ures'[u].next_chunk = -1
              \/ ures'[u].next_chunk \in 0..(ureq[u].total_chunks - 1)
           /\ ureq[u].chunk_number + 1 = ureq[u].total_chunks => ures'[u].next_chunk = -1]_vars

====
